---- MODULE Spec2Model ----
(*****************************************************************************)
(* Model of webmail_summary: the job runner (jobs/runner.py), the job API    *)
(* handlers (api/routes_jobs.py), the sync worker process                    *)
(* (jobs/worker_sync.py), start-up recovery (app/main.py), the per-message   *)
(* sync pipeline (jobs/tasks_sync.py, index/mail_repo.py, imap_client.py),   *)
(* the message archive (archive/), the long-body summarizer                  *)
(* (llm/long_summarize.py), the resummarize and refresh-overviews tasks and  *)
(* the job event stream.                                                     *)
(*                                                                           *)
(* The specifications of the module share its variables; each leaves the     *)
(* variables of the others at their idle values:                             *)
(*   Spec         the job system: rows of the jobs table, the runner         *)
(*                thread, the request handlers and the worker processes;     *)
(*   SpecSync     one mailbox and its messages table under repeated sync     *)
(*                and resummarize runs, with crashes between any two steps;  *)
(*   SpecArchive  archive_message on one message directory, repeatedly;      *)
(*   SpecRewrite  rewrite_html over the references of one HTML body;         *)
(*   SpecLlm      summarize_email_long_aware on one body;                    *)
(*   SpecWrite    one file write of the archive, with a crash at any point;  *)
(*   SpecResum    one resummarize run over the messages of a day;            *)
(*   SpecRefresh  one refresh-overviews run;                                 *)
(*   SpecStream   one GET /jobs/{id}/events stream beside the job's writers. *)
(* Timestamps are abstracted to set / unset or small integers; uuid job ids  *)
(* are numbered in the order create_job inserts them.                        *)
(*****************************************************************************)
EXTENDS Integers, Sequences, FiniteSets, TLC

\* ---- bounds -------------------------------------------------------------
\* number of external stimuli: start requests, cancel requests, app restarts
MaxRequests == 3
MaxUid == 2
MaxRuns == 2
MaxResum == 1

JobIds == 1..MaxRequests
\* two threads of the request pool serve start requests concurrently
Handlers == {"h1", "h2"}
Uids == 1..MaxUid
\* file name stems and Content-IDs of the attachment parts of a message
Stems == {"a", "b"}
Cids == {"c1"}

\* ---- jobs table vocabulary ----------------------------------------------
Kinds == {"sync", "resummarize-day"}
ActiveStatuses == {"queued", "running", "cancel_requested"}
TerminalStatuses == {"succeeded", "failed", "cancelled"}
AliveStates == {"init", "run", "raising", "closing0", "closing1"}

VARIABLES
  \* jobs table (jobs/repo.py): one row per job id
  status,            \* "none" while the row does not exist
  message,
  kind,
  stale,             \* TRUE: updated_at is more than 30 minutes old
  nextId,            \* number of rows created so far
  \* JobRunner fields (jobs/runner.py:28-36)
  q,                 \* _q
  active,            \* keys of _active
  cancelEv,          \* jobs whose threading.Event in _active is set
  active_procs,      \* keys of _active_procs
  cancelled_procs,   \* _cancelled_procs
  cancelled_queued,  \* _cancelled_queued
  \* position of the runner thread in _loop
  rpc, rjob, rrc, rcancelled,
  \* worker child processes, by job id
  proc,
  \* request handlers: start_* (two threads of the pool), cancel_job
  hpc, hkind,
  cpc, cjob, cread, nreq,
  \* process generation (number of app starts after the first)
  epoch, jobEpoch,
  \* history: what happened to each job
  started,           \* jobs whose task function or worker was started
  startOrder,        \* the order in which the runner started them, per process
  cq,                \* jobs cancel_job cancelled on reading status queued
  cr,                \* jobs cancel_job set cancel_requested on reading running
  \* ---- SpecSync state ----
  rows,              \* messages table, by uid
  srvSeen,           \* uids that carry \Seen on the server because of the sync
  spc,               \* position of the sync task, "idle" when none runs
  msgs, mi,          \* fetched uids in fetch order; 1-based loop index i
  origSeen,          \* uids whose fetched FLAGS held \Seen
  revert_seen, to_revert,
  markTries,         \* mark_seen attempts made for the current message
  nruns, nresum,
  attRows, extRows,  \* attachments / external_assets tables, by message uid
  last_uid,          \* the watermark the running sync read
  outcome,           \* how the sync task ended: what worker_sync reports
  \* history of the running sync
  stageLog,          \* <<uid, stage>> in the order the stages were entered
  markedOk,          \* uids for which a mark_seen call returned
  warned,            \* uids with a warn event of the mark stage
  progress_current,  \* jobs.progress_current of the sync job, a fraction
  progress_total,    \* jobs.progress_total of the sync job
  pcalls,            \* the current values the last step of the task
                     \* passed to update_progress, in call order
  \* ---- SpecArchive state: one message directory, archived repeatedly ----
  amsg,              \* the attachment parts of the message, in walk order
  ahtml,             \* the src/href/poster values of its html body
  afs,               \* the files of attachments_dir
  ares,              \* the result of each archive_message call so far
  \* ---- SpecRewrite state: one rewrite_html_and_download_assets call ----
  rrefs,             \* the referenced values: attributes first, then css
  rnattr,            \* how many of them are src/href/poster attributes
  rcid_map,          \* cid_map
  rbudget,           \* max_total_bytes
  ri,                \* the reference being handled
  wpc,               \* "next", "stream" (inside stream_download), "done"
  remaining,         \* remaining
  assets,            \* assets
  rout,              \* the values the document holds after the rewrite
  written, total,    \* download: written; stream_download: total
  received,          \* history: bytes appended to chunks, over all downloads
  rcalls,            \* history: the stream_download calls
  \* ---- SpecLlm state: one summarize_email_long_aware call ----
  ltier,             \* provider.tier
  lparas, lpad,      \* body: paragraph lengths, surrounding whitespace
  lmax_chunks,       \* cfg.max_chunks, 0 for None
  ldetail,           \* TRUE: an on_detail callback is given
  lpc,               \* "start", "map", "synth", "finish", "returned", "raised"
  lchunks, li,       \* chunks (their lengths); 1-based loop index i
  all_bullets,
  final_summary_text,
  lsummary,          \* the summary of the LlmResult returned
  lcalls,            \* history: the provider.summarize calls made
  lprogress,         \* history: the values on_progress was called with
  \* ---- SpecWrite state: one write of one file ----
  ftarget,           \* which file of the message directory is written
  fdata,             \* the bytes to write
  fprior,            \* the file at the target path before the write
  ffile,             \* the file at the target path
  ftmp,              \* the temporary file of atomic_write_bytes
  fpc,               \* "start", "tmp", "synced", "finally", "direct", "done", "crashed"
  \* ---- SpecResum state: one resummarize-day run ----
  mrows0, mrows,     \* messages table by id: before the run, now
  message_ids,       \* argument, as a set; {} for None
  only_failed,       \* argument
  targets, ti,       \* targets (ids); 1-based loop index i
  zpc,               \* "list", "item", "llm", "save", "event", "export", ...
  zcancel,           \* the cancel event of the job is set
  zres,              \* llm_res.summary
  zclock,            \* number of set_analysis calls: the value of _now()
  mevents,           \* job_events rows of the job, in id order
  \* ---- SpecRefresh state: one refresh-overviews run ----
  daymsgs,           \* by day: the messages of the day
  overviews0,        \* daily_overviews.updated_at by day before the run
  overviews,         \* daily_overviews.updated_at by day, 0 for no row
  date_keys,         \* argument, as a set; {} for None
  force_refresh,     \* argument
  days, oi,          \* days; 1-based loop index i
  opc,               \* "start", "day", "done"
  ocancel,           \* the cancel event of the job is set
  ocalls,            \* history: the days synthesize_daily_overview was called for
  oevents,           \* job_events rows the run added, in id order
  \* ---- SpecStream state: one GET /jobs/{id}/events stream ----
  ekind, estatus,    \* the jobs row: kind, status ("none": no such row)
  etab,              \* job_events in id order: the job of each row
  nstatus,           \* number of status writes by the writers
  termAt,            \* history: rows in job_events when the row first read
                     \* a terminal status, -1 before
  epc,               \* position of gen()
  ejob,              \* job.status as read by the poll
  evs,               \* evs: the ids read by the poll
  last_id,           \* last_id
  delivered,         \* history: ids of the events yielded
  polls, termPoll    \* history: polls made; the first that read a terminal status

jobVars == <<status, message, kind, stale, nextId, q, active, cancelEv,
             active_procs, cancelled_procs, cancelled_queued,
             rpc, rjob, rrc, rcancelled, proc, hpc, hkind,
             cpc, cjob, cread, nreq, epoch, jobEpoch,
             started, startOrder, cq, cr>>
syncVars == <<rows, srvSeen, spc, msgs, mi, origSeen, revert_seen, to_revert,
              markTries, nruns, nresum, attRows, extRows, last_uid, outcome,
              stageLog, markedOk, warned, progress_current,
              progress_total, pcalls>>
archVars == <<amsg, ahtml, afs, ares>>
rwVars == <<rrefs, rnattr, rcid_map, rbudget, ri, wpc, remaining, assets,
            rout, written, total, received, rcalls>>
llmVars == <<ltier, lparas, lpad, lmax_chunks, ldetail, lpc, lchunks, li,
             all_bullets, final_summary_text, lsummary, lcalls, lprogress>>
fileVars == <<ftarget, fdata, fprior, ffile, ftmp, fpc>>
resumVars == <<mrows0, mrows, message_ids, only_failed, targets, ti, zpc,
               zcancel, zres, zclock, mevents>>
refreshVars == <<daymsgs, overviews0, overviews, date_keys, force_refresh,
                 days, oi, opc, ocancel, ocalls, oevents>>
streamVars == <<ekind, estatus, etab, nstatus, termAt, epc, ejob, evs,
                last_id, delivered, polls, termPoll>>
moreVars == <<fileVars, resumVars, refreshVars, streamVars>>
pureVars == <<archVars, rwVars, llmVars, moreVars>>
nonJobVars == <<syncVars, pureVars>>
nonSyncVars == <<jobVars, pureVars>>
nonArchVars == <<jobVars, syncVars, rwVars, llmVars, moreVars>>
nonRewriteVars == <<jobVars, syncVars, archVars, llmVars, moreVars>>
nonLlmVars == <<jobVars, syncVars, archVars, rwVars, moreVars>>
nonFileVars == <<jobVars, syncVars, archVars, rwVars, llmVars, resumVars,
                 refreshVars, streamVars>>
nonResumVars == <<jobVars, syncVars, archVars, rwVars, llmVars, fileVars,
                  refreshVars, streamVars>>
nonRefreshVars == <<jobVars, syncVars, archVars, rwVars, llmVars, fileVars,
                    resumVars, streamVars>>
nonStreamVars == <<jobVars, syncVars, archVars, rwVars, llmVars, fileVars,
                   resumVars, refreshVars>>
vars == <<jobVars, syncVars, pureVars>>

\* ---- jobs/repo.py -------------------------------------------------------
\* set_job_status: UPDATE jobs SET status, message, updated_at WHERE id
set_job_status(j, s, m) ==
  /\ status' = [status EXCEPT ![j] = s]
  /\ message' = [message EXCEPT ![j] = m]
  /\ stale' = [stale EXCEPT ![j] = FALSE]

\* find_active_job: the most recently updated active row of the kind.  A row
\* that is not stale was updated after every stale one.
ActiveRows(k) == {j \in JobIds : kind[j] = k /\ status[j] \in ActiveStatuses}
find_active_job(k) ==
  IF \E j \in ActiveRows(k) : ~stale[j]
    THEN {j \in ActiveRows(k) : ~stale[j]}
    ELSE ActiveRows(k)

\* ---- jobs/worker_probe.py -----------------------------------------------
is_sync_worker_running(j) == proc[j] \in AliveStates
\* kill_sync_worker: terminate, wait, kill every worker process of the job
kill_sync_worker(p, j) ==
  [p EXCEPT ![j] = IF p[j] \in AliveStates THEN "killed" ELSE p[j]]

InitJobs ==
  /\ status = [j \in JobIds |-> "none"]
  /\ message = [j \in JobIds |-> ""]
  /\ kind = [j \in JobIds |-> "none"]
  /\ stale = [j \in JobIds |-> FALSE]
  /\ nextId = 0
  /\ q = <<>>
  /\ active = {}
  /\ cancelEv = {}
  /\ active_procs = {}
  /\ cancelled_procs = {}
  /\ cancelled_queued = {}
  /\ rpc = "get"
  /\ rjob = 0
  /\ rrc = 0
  /\ rcancelled = FALSE
  /\ proc = [j \in JobIds |-> "none"]
  /\ hpc = [h \in Handlers |-> "idle"]
  /\ hkind = [h \in Handlers |-> "none"]
  /\ cpc = "idle"
  /\ cjob = 0
  /\ cread = "none"
  /\ nreq = 0
  /\ epoch = 0
  /\ jobEpoch = [j \in JobIds |-> 0]
  /\ started = {}
  /\ startOrder = <<>>
  /\ cq = {}
  /\ cr = {}

\* jobs/repo.py:47: a new jobs row has progress_current 0, progress_total 0
NoProgress == [num |-> 0, den |-> 1]

InitSyncIdle ==
  /\ rows = [u \in Uids |-> [present |-> FALSE, copies |-> 0,
                             archived |-> FALSE,
                             summary |-> "none", exported |-> FALSE,
                             seen_marked |-> FALSE]]
  /\ srvSeen = {}
  /\ spc = "idle"
  /\ msgs = <<>>
  /\ mi = 0
  /\ origSeen = {}
  /\ revert_seen = FALSE
  /\ to_revert = {}
  /\ markTries = 0
  /\ nruns = 0
  /\ nresum = 0
  /\ attRows = [u \in Uids |-> <<>>]
  /\ extRows = [u \in Uids |-> <<>>]
  /\ last_uid = 0
  /\ outcome = "none"
  /\ stageLog = <<>>
  /\ markedOk = {}
  /\ warned = {}
  /\ progress_current = NoProgress
  /\ progress_total = 0
  /\ pcalls = <<>>

\* no message directory is being archived
InitArchIdle ==
  /\ amsg = <<>>
  /\ ahtml = <<>>
  /\ afs = {}
  /\ ares = <<>>

\* no rewrite call has been made
InitRewriteIdle ==
  /\ rrefs = <<>>
  /\ rnattr = 0
  /\ rcid_map = [c \in Cids |-> <<>>]
  /\ rbudget = 0
  /\ ri = 1
  /\ wpc = "done"
  /\ remaining = 0
  /\ assets = <<>>
  /\ rout = <<>>
  /\ written = 0
  /\ total = 0
  /\ received = 0
  /\ rcalls = <<>>

\* no summarize call has been made
InitLlmIdle ==
  /\ ltier = "standard"
  /\ lparas = <<>>
  /\ lpad = 0
  /\ lmax_chunks = 0
  /\ ldetail = FALSE
  /\ lpc = "returned"
  /\ lchunks = <<>>
  /\ li = 0
  /\ all_bullets = <<>>
  /\ final_summary_text = <<>>
  /\ lsummary = <<>>
  /\ lcalls = <<>>
  /\ lprogress = <<>>

\* a file of a message directory: absent, or present with its bytes
NoFile == [exists |-> FALSE, data |-> <<>>]
FileOf(d) == [exists |-> TRUE, data |-> d]

\* no file is being written
InitFileIdle ==
  /\ ftarget = "raw.eml"
  /\ fdata = <<>>
  /\ fprior = NoFile
  /\ ffile = NoFile
  /\ ftmp = NoFile
  /\ fpc = "done"

\* no resummarize run has been made
InitResumIdle ==
  /\ mrows0 = <<>>
  /\ mrows = <<>>
  /\ message_ids = {}
  /\ only_failed = FALSE
  /\ targets = <<>>
  /\ ti = 0
  /\ zpc = "done"
  /\ zcancel = FALSE
  /\ zres = ""
  /\ zclock = 0
  /\ mevents = <<>>

\* no refresh-overviews run has been made
InitRefreshIdle ==
  /\ daymsgs = <<>>
  /\ overviews0 = <<>>
  /\ overviews = <<>>
  /\ date_keys = {}
  /\ force_refresh = FALSE
  /\ days = <<>>
  /\ oi = 0
  /\ opc = "done"
  /\ ocancel = FALSE
  /\ ocalls = <<>>
  /\ oevents = <<>>

\* no event stream is open
InitStreamIdle ==
  /\ ekind = "sync"
  /\ estatus = "none"
  /\ etab = <<>>
  /\ nstatus = 0
  /\ termAt = -1
  /\ epc = "closed"
  /\ ejob = "none"
  /\ evs = <<>>
  /\ last_id = 0
  /\ delivered = <<>>
  /\ polls = 0
  /\ termPoll = 0

\* the parts of the model that the job and sync specifications leave idle
InitMoreIdle ==
  InitFileIdle /\ InitResumIdle /\ InitRefreshIdle /\ InitStreamIdle

Init == InitJobs /\ InitSyncIdle /\ InitArchIdle /\ InitRewriteIdle /\ InitLlmIdle
        /\ InitMoreIdle

\* ======================= start handlers =================================
\* routes_jobs.py start_sync / start_resummarize_day / start_local_install:
\* find_active_job, then (in a later statement) runner.enqueue.  A request
\* that finds a fresh active job returns already_running and changes nothing.
StartFind(h, k) ==
  /\ hpc[h] = "idle"
  /\ nreq < MaxRequests
  /\ nreq' = nreq + 1
  /\ \/ /\ find_active_job(k) = {}
        /\ UNCHANGED <<status, message, stale>>
     \/ \E a \in find_active_job(k) :
          /\ k = "sync"
          /\ stale[a]
          /\ set_job_status(a, "failed", "stale job")
  /\ hpc' = [hpc EXCEPT ![h] = "enqueue"]
  /\ hkind' = [hkind EXCEPT ![h] = k]
  /\ UNCHANGED <<kind, nextId, q, active, cancelEv, active_procs,
                 cancelled_procs, cancelled_queued, rpc, rjob, rrc, rcancelled,
                 proc, cpc, cjob, cread, epoch, jobEpoch,
                 started, startOrder, cq, cr>>
  /\ UNCHANGED nonJobVars

\* JobRunner.enqueue: create_job (status queued, message '') and _q.put
Enqueue(h) ==
  /\ hpc[h] = "enqueue"
  /\ LET j == nextId + 1 IN
       /\ nextId' = j
       /\ status' = [status EXCEPT ![j] = "queued"]
       /\ message' = [message EXCEPT ![j] = ""]
       /\ kind' = [kind EXCEPT ![j] = hkind[h]]
       /\ stale' = [stale EXCEPT ![j] = FALSE]
       /\ jobEpoch' = [jobEpoch EXCEPT ![j] = epoch]
       /\ q' = Append(q, j)
  /\ hpc' = [hpc EXCEPT ![h] = "idle"]
  /\ UNCHANGED <<hkind, active, cancelEv, active_procs, cancelled_procs,
                 cancelled_queued, rpc, rjob, rrc, rcancelled, proc,
                 cpc, cjob, cread, nreq, epoch, started, startOrder, cq, cr>>
  /\ UNCHANGED nonJobVars

\* The clock: an active row that nobody updated for 30 minutes
Age(j) ==
  /\ status[j] \in ActiveStatuses
  /\ ~stale[j]
  /\ stale' = [stale EXCEPT ![j] = TRUE]
  /\ UNCHANGED <<status, message, kind, nextId, q, active, cancelEv,
                 active_procs, cancelled_procs, cancelled_queued,
                 rpc, rjob, rrc, rcancelled, proc, hpc, hkind,
                 cpc, cjob, cread, nreq, epoch, jobEpoch,
                 started, startOrder, cq, cr>>
  /\ UNCHANGED nonJobVars

\* ======================= JobRunner._loop ================================
\* (variant: a LIFO queue)
DequeueLast(qq) == qq[Len(qq)]
\* the element _q.get() returns
Dequeue(qq) == Head(qq)

\* runner.py:101-120: dequeue; under the lock either finish a job cancelled
\* before its start or register its cancel token in _active
RunnerGet ==
  /\ rpc = "get"
  /\ q # <<>>
  /\ LET j == Dequeue(q) IN
       /\ q' = SelectSeq(q, LAMBDA x : x # j)
       /\ IF j \in cancelled_queued
            THEN /\ cancelled_queued' = cancelled_queued \ {j}
                 /\ set_job_status(j, "cancelled", "")
                 /\ UNCHANGED <<active, rpc, rjob>>
            ELSE /\ active' = active \cup {j}
                 /\ rjob' = j
                 /\ rpc' = "set_running"
                 /\ UNCHANGED <<status, message, stale, cancelled_queued>>
  /\ UNCHANGED <<kind, nextId, cancelEv, active_procs, cancelled_procs,
                 rrc, rcancelled, proc, hpc, hkind, cpc, cjob, cread, nreq,
                 epoch, jobEpoch, started, startOrder, cq, cr>>
  /\ UNCHANGED nonJobVars

\* runner.py:122-129
RunnerSetRunning ==
  /\ rpc = "set_running"
  /\ set_job_status(rjob, "running", "")
  /\ rpc' = IF kind[rjob] = "sync" THEN "popen" ELSE "call"
  /\ UNCHANGED <<kind, nextId, q, active, cancelEv, active_procs,
                 cancelled_procs, cancelled_queued, rjob, rrc, rcancelled,
                 proc, hpc, hkind, cpc, cjob, cread, nreq, epoch, jobEpoch,
                 started, startOrder, cq, cr>>
  /\ UNCHANGED nonJobVars

\* runner.py:141-146: subprocess.Popen of jobs.worker_sync
RunnerPopen ==
  /\ rpc = "popen"
  /\ proc' = [proc EXCEPT ![rjob] = "init"]
  /\ started' = started \cup {rjob}
  /\ startOrder' = Append(startOrder, rjob)
  /\ rpc' = "register"
  /\ UNCHANGED <<status, message, kind, stale, nextId, q, active, cancelEv,
                 active_procs, cancelled_procs, cancelled_queued, rjob, rrc,
                 rcancelled, hpc, hkind, cpc, cjob, cread, nreq, epoch,
                 jobEpoch, cq, cr>>
  /\ UNCHANGED nonJobVars

\* runner.py:147-148
RunnerRegister ==
  /\ rpc = "register"
  /\ active_procs' = active_procs \cup {rjob}
  /\ rpc' = "wait"
  /\ UNCHANGED <<status, message, kind, stale, nextId, q, active, cancelEv,
                 cancelled_procs, cancelled_queued, rjob, rrc, rcancelled,
                 proc, hpc, hkind, cpc, cjob, cread, nreq, epoch, jobEpoch,
                 started, startOrder, cq, cr>>
  /\ UNCHANGED nonJobVars

\* (variant: the runner does not wait for the child)
WaitReturnsAtOnce(p) == TRUE
\* the runner may go on once the child it waits for has exited
WaitReturns(p) == p \in {"exit0", "exit1", "killed"}

\* runner.py:149-151: proc.wait() returns, then read _cancelled_procs
RunnerWait ==
  /\ rpc = "wait"
  /\ WaitReturns(proc[rjob])
  /\ rrc' = IF proc[rjob] = "exit0" THEN 0 ELSE 1
  /\ rcancelled' = (rjob \in cancelled_procs)
  /\ rpc' = "post_wait"
  /\ UNCHANGED <<status, message, kind, stale, nextId, q, active, cancelEv,
                 active_procs, cancelled_procs, cancelled_queued, rjob,
                 proc, hpc, hkind, cpc, cjob, cread, nreq, epoch, jobEpoch,
                 started, startOrder, cq, cr>>
  /\ UNCHANGED nonJobVars

\* runner.py:152-170: finalize a cancelled worker; a failed one raises
RunnerPostWait ==
  /\ rpc = "post_wait"
  /\ IF rcancelled /\ status[rjob] = "cancel_requested"
       THEN set_job_status(rjob, "cancelled", "")
       ELSE UNCHANGED <<status, message, stale>>
  /\ rpc' = IF rrc # 0 /\ ~rcancelled THEN "except" ELSE "else"
  /\ UNCHANGED <<kind, nextId, q, active, cancelEv, active_procs,
                 cancelled_procs, cancelled_queued, rjob, rrc, rcancelled,
                 proc, hpc, hkind, cpc, cjob, cread, nreq, epoch, jobEpoch,
                 started, startOrder, cq, cr>>
  /\ UNCHANGED nonJobVars

\* runner.py:172: job.fn(job.id, cancel) is entered in the runner thread
RunnerCall ==
  /\ rpc = "call"
  /\ started' = started \cup {rjob}
  /\ startOrder' = Append(startOrder, rjob)
  /\ rpc' = "task"
  /\ UNCHANGED <<status, message, kind, stale, nextId, q, active, cancelEv,
                 active_procs, cancelled_procs, cancelled_queued, rjob, rrc,
                 rcancelled, proc, hpc, hkind, cpc, cjob, cread, nreq,
                 epoch, jobEpoch, cq, cr>>
  /\ UNCHANGED nonJobVars

\* the task function returns (also after it saw the cancel token)
TaskReturn ==
  /\ rpc = "task"
  /\ rpc' = "else"
  /\ UNCHANGED <<status, message, kind, stale, nextId, q, active, cancelEv,
                 active_procs, cancelled_procs, cancelled_queued, rjob, rrc,
                 rcancelled, proc, hpc, hkind, cpc, cjob, cread, nreq,
                 epoch, jobEpoch, started, startOrder, cq, cr>>
  /\ UNCHANGED nonJobVars

\* the task function raises
TaskRaise ==
  /\ rpc = "task"
  /\ rpc' = "except"
  /\ UNCHANGED <<status, message, kind, stale, nextId, q, active, cancelEv,
                 active_procs, cancelled_procs, cancelled_queued, rjob, rrc,
                 rcancelled, proc, hpc, hkind, cpc, cjob, cread, nreq,
                 epoch, jobEpoch, started, startOrder, cq, cr>>
  /\ UNCHANGED nonJobVars

\* tasks_resummarize.py:71-82: LlmNotReady: the task fails its own row, raises
TaskNotReady ==
  /\ rpc = "task"
  /\ set_job_status(rjob, "failed", "exc")
  /\ rpc' = "except"
  /\ UNCHANGED <<kind, nextId, q, active, cancelEv, active_procs,
                 cancelled_procs, cancelled_queued, rjob, rrc, rcancelled,
                 proc, hpc, hkind, cpc, cjob, cread, nreq, epoch, jobEpoch,
                 started, startOrder, cq, cr>>
  /\ UNCHANGED nonJobVars

\* runner.py:178-180: the condition under which the except block writes nothing
PreserveOnError(j) == j \in cancelEv \/ status[j] \in {"cancelled"}

\* runner.py:173-189
RunnerExcept ==
  /\ rpc = "except"
  /\ IF PreserveOnError(rjob)
       THEN UNCHANGED <<status, message, stale>>
       ELSE set_job_status(rjob, "failed",
                           IF kind[rjob] = "sync" THEN "sync worker failed"
                                                  ELSE "exc")
  /\ rpc' = "finally"
  /\ UNCHANGED <<kind, nextId, q, active, cancelEv, active_procs,
                 cancelled_procs, cancelled_queued, rjob, rrc, rcancelled,
                 proc, hpc, hkind, cpc, cjob, cread, nreq, epoch, jobEpoch,
                 started, startOrder, cq, cr>>
  /\ UNCHANGED nonJobVars

\* runner.py:190-202
RunnerElse ==
  /\ rpc = "else"
  /\ IF rjob \in cancelEv
       THEN set_job_status(rjob, "cancelled", "")
       ELSE IF kind[rjob] # "sync"
              THEN set_job_status(rjob, "succeeded", "")
              ELSE UNCHANGED <<status, message, stale>>
  /\ rpc' = "finally"
  /\ UNCHANGED <<kind, nextId, q, active, cancelEv, active_procs,
                 cancelled_procs, cancelled_queued, rjob, rrc, rcancelled,
                 proc, hpc, hkind, cpc, cjob, cread, nreq, epoch, jobEpoch,
                 started, startOrder, cq, cr>>
  /\ UNCHANGED nonJobVars

\* runner.py:203-207
RunnerFinally ==
  /\ rpc = "finally"
  /\ active' = active \ {rjob}
  /\ cancelEv' = cancelEv \ {rjob}
  /\ active_procs' = active_procs \ {rjob}
  /\ cancelled_procs' = cancelled_procs \ {rjob}
  /\ rpc' = "get"
  /\ rjob' = 0
  /\ rrc' = 0
  /\ rcancelled' = FALSE
  /\ UNCHANGED <<status, message, kind, stale, nextId, q, cancelled_queued,
                 proc, hpc, hkind, cpc, cjob, cread, nreq, epoch, jobEpoch,
                 started, startOrder, cq, cr>>
  /\ UNCHANGED nonJobVars

\* ======================= jobs/worker_sync.py main =======================
\* worker_sync.py:20-25
WorkerStart(j) ==
  /\ proc[j] = "init"
  /\ set_job_status(j, "running", "")
  /\ proc' = [proc EXCEPT ![j] = "run"]
  /\ UNCHANGED <<kind, nextId, q, active, cancelEv, active_procs,
                 cancelled_procs, cancelled_queued, rpc, rjob, rrc, rcancelled,
                 hpc, hkind, cpc, cjob, cread, nreq, epoch, jobEpoch,
                 started, startOrder, cq, cr>>
  /\ UNCHANGED nonJobVars

\* tasks_sync.py:92-103: LlmNotReady: the task fails the row, then raises
WorkerNotReady(j) ==
  /\ proc[j] = "run"
  /\ set_job_status(j, "failed", "exc")
  /\ proc' = [proc EXCEPT ![j] = "raising"]
  /\ UNCHANGED <<kind, nextId, q, active, cancelEv, active_procs,
                 cancelled_procs, cancelled_queued, rpc, rjob, rrc, rcancelled,
                 hpc, hkind, cpc, cjob, cread, nreq, epoch, jobEpoch,
                 started, startOrder, cq, cr>>
  /\ UNCHANGED nonJobVars

\* worker_sync.py:30-42: the task raised; fail the row unless it is cancelled
WorkerExcept(j) ==
  /\ proc[j] \in {"run", "raising"}
  /\ IF status[j] \notin {"cancelled"}
       THEN set_job_status(j, "failed", "exc")
       ELSE UNCHANGED <<status, message, stale>>
  /\ proc' = [proc EXCEPT ![j] = "closing1"]
  /\ UNCHANGED <<kind, nextId, q, active, cancelEv, active_procs,
                 cancelled_procs, cancelled_queued, rpc, rjob, rrc, rcancelled,
                 hpc, hkind, cpc, cjob, cread, nreq, epoch, jobEpoch,
                 started, startOrder, cq, cr>>
  /\ UNCHANGED nonJobVars

\* worker_sync.py:43-50: the task returned
WorkerSucceed(j) ==
  /\ proc[j] = "run"
  /\ IF status[j] \notin {"cancelled"}
       THEN set_job_status(j, "succeeded", "")
       ELSE UNCHANGED <<status, message, stale>>
  /\ proc' = [proc EXCEPT ![j] = "closing0"]
  /\ UNCHANGED <<kind, nextId, q, active, cancelEv, active_procs,
                 cancelled_procs, cancelled_queued, rpc, rjob, rrc, rcancelled,
                 hpc, hkind, cpc, cjob, cread, nreq, epoch, jobEpoch,
                 started, startOrder, cq, cr>>
  /\ UNCHANGED nonJobVars

\* the worker process ends: exit code 0, or 1 after the re-raise
WorkerExit(j) ==
  /\ proc[j] \in {"closing0", "closing1"}
  /\ proc' = [proc EXCEPT ![j] = IF proc[j] = "closing0" THEN "exit0" ELSE "exit1"]
  /\ UNCHANGED <<status, message, kind, stale, nextId, q, active, cancelEv,
                 active_procs, cancelled_procs, cancelled_queued,
                 rpc, rjob, rrc, rcancelled, hpc, hkind,
                 cpc, cjob, cread, nreq, epoch, jobEpoch,
                 started, startOrder, cq, cr>>
  /\ UNCHANGED nonJobVars

\* ======================= POST /api/jobs/{id}/cancel =====================
\* JobRunner.cancel, the part under the lock (runner.py:58-89)
CancelCall(j) ==
  /\ cpc = "idle"
  /\ nreq < MaxRequests
  /\ status[j] # "none"
  /\ nreq' = nreq + 1
  /\ cjob' = j
  /\ cread' = "none"
  /\ IF j \in active_procs
       THEN /\ cancelled_procs' = cancelled_procs \cup {j}
            /\ proc' = kill_sync_worker(proc, j)
            /\ cpc' = "read"
            /\ UNCHANGED <<cancelEv, cancelled_queued>>
       ELSE IF j \in active
         THEN /\ cancelEv' = cancelEv \cup {j}
              /\ cpc' = "read"
              /\ UNCHANGED <<cancelled_procs, cancelled_queued, proc>>
         ELSE /\ cancelled_queued' = cancelled_queued \cup {j}
              /\ cpc' = "fallback"
              /\ UNCHANGED <<cancelEv, cancelled_procs, proc>>
  /\ UNCHANGED <<status, message, kind, stale, nextId, q, active, active_procs,
                 rpc, rjob, rrc, rcancelled, hpc, hkind, epoch, jobEpoch,
                 started, startOrder, cq, cr>>
  /\ UNCHANGED nonJobVars

\* JobRunner.cancel, the fallback after the lock (runner.py:91-96)
CancelFallback ==
  /\ cpc = "fallback"
  /\ proc' = kill_sync_worker(proc, cjob)
  /\ cpc' = "read"
  /\ UNCHANGED <<status, message, kind, stale, nextId, q, active, cancelEv,
                 active_procs, cancelled_procs, cancelled_queued,
                 rpc, rjob, rrc, rcancelled, hpc, hkind,
                 cjob, cread, nreq, epoch, jobEpoch,
                 started, startOrder, cq, cr>>
  /\ UNCHANGED nonJobVars

\* routes_jobs.py:92: job = repo.get_job(conn, job_id)
CancelRead ==
  /\ cpc = "read"
  /\ cread' = status[cjob]
  /\ cpc' = "write"
  /\ UNCHANGED <<status, message, kind, stale, nextId, q, active, cancelEv,
                 active_procs, cancelled_procs, cancelled_queued,
                 rpc, rjob, rrc, rcancelled, proc, hpc, hkind,
                 cjob, nreq, epoch, jobEpoch,
                 started, startOrder, cq, cr>>
  /\ UNCHANGED nonJobVars

\* (variant: every status other than running is treated like queued)
CancelTargetElse(s) ==
  IF s \in {"running"} THEN "cancel_requested" ELSE "cancelled"
\* the status cancel_job writes for the status it read (routes_jobs.py:97-102)
CancelTarget(s) ==
  IF s \in {"queued"} THEN "cancelled"
  ELSE IF s \in {"running"} THEN "cancel_requested"
  ELSE "keep"

\* routes_jobs.py:96-104
CancelWrite ==
  /\ cpc = "write"
  /\ IF CancelTarget(cread) = "keep"
       THEN UNCHANGED <<status, message, stale>>
       ELSE set_job_status(cjob, CancelTarget(cread), "")
  /\ cq' = IF cread = "queued" THEN cq \cup {cjob} ELSE cq
  /\ cr' = IF cread = "running" THEN cr \cup {cjob} ELSE cr
  /\ cpc' = IF kind[cjob] = "sync" THEN "kill" ELSE "idle"
  /\ UNCHANGED <<kind, nextId, q, active, cancelEv, active_procs,
                 cancelled_procs, cancelled_queued, rpc, rjob, rrc, rcancelled,
                 proc, hpc, hkind, cjob, cread, nreq, epoch, jobEpoch,
                 started, startOrder>>
  /\ UNCHANGED nonJobVars

\* routes_jobs.py:114-118
CancelKill ==
  /\ cpc = "kill"
  /\ proc' = kill_sync_worker(proc, cjob)
  /\ cpc' = "final"
  /\ UNCHANGED <<status, message, kind, stale, nextId, q, active, cancelEv,
                 active_procs, cancelled_procs, cancelled_queued,
                 rpc, rjob, rrc, rcancelled, hpc, hkind,
                 cjob, cread, nreq, epoch, jobEpoch,
                 started, startOrder, cq, cr>>
  /\ UNCHANGED nonJobVars

\* routes_jobs.py:119-134
CancelFinal ==
  /\ cpc = "final"
  /\ IF ~is_sync_worker_running(cjob) /\ status[cjob] = "cancel_requested"
       THEN set_job_status(cjob, "cancelled", "")
       ELSE UNCHANGED <<status, message, stale>>
  /\ cpc' = "idle"
  /\ UNCHANGED <<kind, nextId, q, active, cancelEv, active_procs,
                 cancelled_procs, cancelled_queued, rpc, rjob, rrc, rcancelled,
                 proc, hpc, hkind, cjob, cread, nreq, epoch, jobEpoch,
                 started, startOrder, cq, cr>>
  /\ UNCHANGED nonJobVars

\* ======================= app start (app/main.py) ========================
\* (variant: only running rows are failed, queued rows are left alone)
RecoveredStatusRunningOnly(s) ==
  IF s \in {"running"} THEN "failed"
  ELSE IF s \in {"cancel_requested"} THEN "cancelled"
  ELSE s
\* the two UPDATE statements of create_app, one transaction
RecoveredStatus(s) ==
  IF s \in {"queued", "running"} THEN "failed"
  ELSE IF s \in {"cancel_requested"} THEN "cancelled"
  ELSE s
RecoveredMessage(s, m) ==
  IF s \in {"queued", "running"} THEN "recovered on startup"
  ELSE IF s \in {"cancel_requested"} THEN "recovered as cancelled"
  ELSE m

\* The app process ends at any point and is started again: a new JobRunner
\* (empty queue and maps), no request in flight, start-up recovery applied.
\* Worker children of the old process are not waited for and stay as they are.
Recover ==
  /\ nreq < MaxRequests
  /\ nreq' = nreq + 1
  /\ epoch' = epoch + 1
  /\ status' = [j \in JobIds |-> RecoveredStatus(status[j])]
  /\ message' = [j \in JobIds |-> RecoveredMessage(status[j], message[j])]
  /\ stale' = [j \in JobIds |-> IF status[j] \in ActiveStatuses THEN FALSE ELSE stale[j]]
  /\ q' = <<>>
  /\ active' = {}
  /\ cancelEv' = {}
  /\ active_procs' = {}
  /\ cancelled_procs' = {}
  /\ cancelled_queued' = {}
  /\ rpc' = "get"
  /\ rjob' = 0
  /\ rrc' = 0
  /\ rcancelled' = FALSE
  /\ hpc' = [h \in Handlers |-> "idle"]
  /\ hkind' = [h \in Handlers |-> "none"]
  /\ cpc' = "idle"
  /\ cjob' = 0
  /\ cread' = "none"
  /\ startOrder' = <<>>
  /\ UNCHANGED <<kind, nextId, proc, jobEpoch, started, cq, cr>>
  /\ UNCHANGED nonJobVars

Next ==
  \/ \E h \in Handlers, k \in Kinds : StartFind(h, k)
  \/ \E h \in Handlers : Enqueue(h)
  \/ \E j \in JobIds : Age(j)
  \/ RunnerGet
  \/ RunnerSetRunning
  \/ RunnerPopen
  \/ RunnerRegister
  \/ RunnerWait
  \/ RunnerPostWait
  \/ RunnerCall
  \/ TaskReturn
  \/ TaskRaise
  \/ TaskNotReady
  \/ RunnerExcept
  \/ RunnerElse
  \/ RunnerFinally
  \/ \E j \in JobIds : WorkerStart(j)
  \/ \E j \in JobIds : WorkerNotReady(j)
  \/ \E j \in JobIds : WorkerExcept(j)
  \/ \E j \in JobIds : WorkerSucceed(j)
  \/ \E j \in JobIds : WorkerExit(j)
  \/ \E j \in JobIds : CancelCall(j)
  \/ CancelFallback
  \/ CancelRead
  \/ CancelWrite
  \/ CancelKill
  \/ CancelFinal
  \/ Recover

Spec == Init /\ [][Next]_vars

\* ======================= sync of one mailbox ============================
\* One (account, mailbox, uidvalidity); every uid of Uids matches the search.

\* ---- index/mail_repo.py ----
\* upsert_message: INSERT .. ON CONFLICT(account_id, mailbox, uidvalidity,
\* uid) DO UPDATE; archived_at is COALESCE(messages.archived_at,
\* excluded.archived_at); exported_at, seen_marked_at and the analysis
\* columns are not in the UPDATE list.  copies counts the rows of the key.
upsert_message(r) ==
  [r EXCEPT !.present = TRUE, !.archived = TRUE,
            !.copies = IF r.present THEN r.copies ELSE 1]
\* (variant: the DELETE of the old rows is missing)
replace_attachments_append(old, items) == old \o items
\* replace_attachments: DELETE FROM attachments WHERE message_fk, then one
\* INSERT per item
replace_attachments(old, items) == items
\* replace_external_assets: DELETE FROM external_assets WHERE message_fk, then
\* one INSERT per item
replace_external_assets(old, items) == items
\* set_analysis: UPDATE messages SET summary, ..., summarized_at WHERE id
set_analysis(r, text) == IF r.present THEN [r EXCEPT !.summary = text] ELSE r
\* (variant: the export timestamp is not written)
set_exported_lost(r) == r
\* set_exported: UPDATE messages SET exported_at WHERE id
set_exported(r) == IF r.present THEN [r EXCEPT !.exported = TRUE] ELSE r
\* set_seen_marked: UPDATE messages SET seen_marked_at WHERE id
set_seen_marked(r) == IF r.present THEN [r EXCEPT !.seen_marked = TRUE] ELSE r

MaxOf(S) == IF S = {} THEN 0
            ELSE LET x == CHOOSE y \in S : \A z \in S : z <= y IN x
\* get_max_uid: MAX(uid) over rows with seen_marked_at set; None is 0 here
get_max_uid(rs) == MaxOf({u \in Uids : rs[u].present /\ rs[u].seen_marked})

\* ---- imap_client.py ----
\* (variant: the server's answer is used in the order it came)
search_uids_unsorted(raw, min_uid_exclusive) ==
  SelectSeq(raw, LAMBDA u : u > min_uid_exclusive)
\* ImapSession.search_uids: the server's answer raw, sorted, then filtered by
\* min_uid_exclusive
search_uids(raw, min_uid_exclusive) ==
  SelectSeq(SortSeq(raw, LAMBDA a, b : a < b),
            LAMBDA u : u > min_uid_exclusive)

\* fetch_messages: the uid list is cut into parts of 20, each part is fetched
\* and its messages are appended in the order of the part
FetchChunk == 20
RECURSIVE chunks(_, _)
chunks(seq, n) ==
  IF seq = <<>> THEN <<>>
  ELSE IF Len(seq) <= n THEN <<seq>>
  ELSE <<SubSeq(seq, 1, n)>> \o chunks(SubSeq(seq, n + 1, Len(seq)), n)
RECURSIVE Flatten(_)
Flatten(parts) ==
  IF parts = <<>> THEN <<>> ELSE Head(parts) \o Flatten(Tail(parts))
fetch_messages(uids) == Flatten(chunks(uids, FetchChunk))

SeqSet(sq) == {sq[k] : k \in 1..Len(sq)}
CurUid == msgs[mi]

\* the flags a FETCH of the message bodies leaves on the server: BODY.PEEK[]
\* leaves them alone; the fallback item RFC822 (imap_client.py:114-119) is a
\* non-peek fetch on a folder selected read-write, which sets \Seen
fetch_flags(seen, uids, peekAccepted) ==
  IF peekAccepted THEN seen ELSE seen \cup uids

\* ---- archive/pipeline.py ----
\* archive_message as the sync task sees it: the ArchiveResult of the archive
\* that run number run made of message u.  Its attachments and external
\* assets carry the run, because file names (mime_parts._unique_path) and
\* download outcomes may differ from one archive to the next.
archive_message(u, run) ==
  [attachments |-> <<[uid |-> u, run |-> run]>>,
   external_assets |-> <<[uid |-> u, run |-> run]>>]

\* ---- jobs/tasks_sync.py ----
\* max(len(msgs), 1)
progress_total_of(n) == IF n > 1 THEN n ELSE 1

\* set_stage (tasks_sync.py:194-214): current = i - 0.99
stage_progress(i) == [num |-> 100 * i - 99, den |-> 100]

\* update_sub_progress (tasks_sync.py:343-355): current = i - 1 + fraction
update_sub_progress(i, f) == [num |-> (i - 1) * f.den + f.num, den |-> f.den]

\* the fractions summarize_email_long_aware hands to on_progress for a body
\* of n chunks (long_summarize.py:358-362, 435-439): k / total_units after
\* chunk k, then 1.0; none for a body summarized in one call (n = 0)
MaxSubChunks == 2
on_progress_calls(n) ==
  IF n = 0 THEN <<>>
  ELSE [k \in 1..n |-> [num |-> k, den |-> n + 1]]
         \o <<[num |-> 1, den |-> 1]>>

\* repo.update_progress (jobs/repo.py:63-75) called with each of the current
\* values ws in turn and the total tot; no call leaves the row alone
update_progress(ws, tot) ==
  /\ pcalls' = ws
  /\ progress_current' = ws[Len(ws)]
  /\ progress_total' = tot
no_progress ==
  /\ pcalls' = <<>>
  /\ UNCHANGED <<progress_current, progress_total>>

\* tasks_sync.py:113-150: settings, get_max_uid, search_uids, update_progress
SyncBegin ==
  /\ spc = "idle"
  /\ nruns < MaxRuns
  /\ nruns' = nruns + 1
  /\ \E rv \in BOOLEAN : revert_seen' = rv
  /\ last_uid' = get_max_uid(rows)
  /\ \E raw \in Permutations(Uids) : msgs' = search_uids(raw, last_uid')
  /\ mi' = 0
  /\ to_revert' = {}
  /\ markTries' = 0
  /\ outcome' = "running"
  /\ stageLog' = <<>>
  /\ markedOk' = {}
  /\ warned' = {}
  /\ spc' = "fetch"
  /\ UNCHANGED <<rows, srvSeen, origSeen, nresum, attRows, extRows>>
  /\ update_progress(<<NoProgress>>, progress_total_of(Len(msgs')))
  /\ UNCHANGED nonSyncVars

\* tasks_sync.py:152, ImapSession.fetch_messages: FLAGS and INTERNALDATE
\* first, then the bodies; the server accepts BODY.PEEK[] or it does not
SyncFetch ==
  /\ spc = "fetch"
  /\ origSeen' = srvSeen \cap SeqSet(msgs)
  /\ \E peekAccepted \in BOOLEAN :
       srvSeen' = fetch_flags(srvSeen, SeqSet(msgs), peekAccepted)
  /\ msgs' = fetch_messages(msgs)
  /\ mi' = 1
  /\ spc' = IF msgs = <<>> THEN "finally" ELSE "archive"
  /\ UNCHANGED <<rows, revert_seen, to_revert, markTries, nruns, nresum,
                 attRows, extRows, last_uid, outcome, stageLog, markedOk,
                 warned>>
  /\ no_progress
  /\ UNCHANGED nonSyncVars

\* tasks_sync.py:216-255: archive_message writes the message directory
SyncArchive ==
  /\ spc = "archive"
  /\ stageLog' = Append(stageLog, <<CurUid, "archive">>)
  /\ spc' = "index"
  /\ UNCHANGED <<rows, srvSeen, msgs, mi, origSeen, revert_seen, to_revert,
                 markTries, nruns, nresum, attRows, extRows, last_uid,
                 outcome, markedOk, warned>>
  /\ update_progress(<<stage_progress(mi)>>, progress_total_of(Len(msgs)))
  /\ UNCHANGED nonSyncVars

\* tasks_sync.py:257-313: upsert_message, replace_attachments,
\* replace_external_assets, commit (one transaction)
SyncIndex ==
  /\ spc = "index"
  /\ stageLog' = Append(stageLog, <<CurUid, "index">>)
  /\ rows' = [rows EXCEPT ![CurUid] = upsert_message(rows[CurUid])]
  /\ LET ar == archive_message(CurUid, nruns) IN
       /\ attRows' = [attRows EXCEPT ![CurUid] =
                        replace_attachments(attRows[CurUid], ar.attachments)]
       /\ extRows' = [extRows EXCEPT ![CurUid] =
                        replace_external_assets(extRows[CurUid],
                                                ar.external_assets)]
  /\ spc' = "summarize"
  /\ UNCHANGED <<srvSeen, msgs, mi, origSeen, revert_seen, to_revert,
                 markTries, nruns, nresum, last_uid, outcome, markedOk,
                 warned>>
  /\ update_progress(<<stage_progress(mi)>>, progress_total_of(Len(msgs)))
  /\ UNCHANGED nonSyncVars

\* tasks_sync.py:331-403: summarize_email_long_aware, set_analysis, commit
SyncSummarize ==
  /\ spc = "summarize"
  /\ stageLog' = Append(stageLog, <<CurUid, "summarize">>)
  /\ rows' = [rows EXCEPT ![CurUid] = set_analysis(rows[CurUid], "sync")]
  /\ spc' = "export"
  /\ UNCHANGED <<srvSeen, msgs, mi, origSeen, revert_seen, to_revert,
                 markTries, nruns, nresum, attRows, extRows, last_uid,
                 outcome, markedOk, warned>>
  /\ \E n \in 0..MaxSubChunks :
       update_progress(<<stage_progress(mi)>> \o
                         [k \in 1..Len(on_progress_calls(n)) |->
                            update_sub_progress(mi, on_progress_calls(n)[k])],
                       progress_total_of(Len(msgs)))
  /\ UNCHANGED nonSyncVars

\* tasks_sync.py:405-422: export_email_note writes the note
SyncExportNote ==
  /\ spc = "export"
  /\ stageLog' = Append(stageLog, <<CurUid, "export">>)
  /\ spc' = "set_exported"
  /\ UNCHANGED <<rows, srvSeen, msgs, mi, origSeen, revert_seen, to_revert,
                 markTries, nruns, nresum, attRows, extRows, last_uid,
                 outcome, markedOk, warned>>
  /\ update_progress(<<stage_progress(mi)>>, progress_total_of(Len(msgs)))
  /\ UNCHANGED nonSyncVars

\* tasks_sync.py:424-429: set_exported, commit
SyncSetExported ==
  /\ spc = "set_exported"
  /\ rows' = [rows EXCEPT ![CurUid] = set_exported(rows[CurUid])]
  /\ markTries' = 0
  /\ spc' = "mark"
  /\ UNCHANGED <<srvSeen, msgs, mi, origSeen, revert_seen, to_revert,
                 nruns, nresum, attRows, extRows, last_uid, outcome,
                 stageLog, markedOk, warned>>
  /\ no_progress
  /\ UNCHANGED nonSyncVars

\* the position after the last stage of message i
NextMessage == IF mi < Len(msgs) THEN "archive" ELSE "finally"

\* (variant: the mark stage goes on to set_seen_marked whatever mark_seen did)
mark_seen_retry_lenient(ok, tries) == "set_seen_marked"
\* _mark_seen_retry (tasks_sync.py:157-166) and its caller (437-457), after
\* attempt number tries returned (ok) or raised: go on to set_seen_marked,
\* try once more on a fresh session, or let the exception reach the except
\* block of the mark stage
mark_seen_retry(ok, tries) ==
  IF ok THEN "set_seen_marked"
  ELSE IF tries < 2 THEN "mark" ELSE "warn"

\* one attempt of imap.mark_seen: on the current session, then once on a
\* fresh session; each attempt returns or raises
SyncMarkSeen ==
  /\ spc = "mark"
  /\ markTries < 2
  /\ markTries' = markTries + 1
  /\ stageLog' = IF markTries = 0
                   THEN Append(stageLog, <<CurUid, "mark">>) ELSE stageLog
  /\ \E ok \in BOOLEAN :
       LET nxt == mark_seen_retry(ok, markTries + 1) IN
         /\ srvSeen' = IF ok THEN srvSeen \cup {CurUid} ELSE srvSeen
         /\ markedOk' = IF ok THEN markedOk \cup {CurUid} ELSE markedOk
         /\ to_revert' = IF nxt = "set_seen_marked" /\ revert_seen
                            /\ CurUid \notin origSeen
                           THEN to_revert \cup {CurUid} ELSE to_revert
         /\ IF nxt = "warn"
              THEN \* both attempts raised: warn event, next message
                   /\ warned' = warned \cup {CurUid}
                   /\ spc' = NextMessage
                   /\ mi' = mi + 1
              ELSE /\ spc' = nxt
                   /\ UNCHANGED <<mi, warned>>
  /\ UNCHANGED <<rows, msgs, origSeen, revert_seen, nruns, nresum, attRows,
                 extRows, last_uid, outcome>>
  /\ IF markTries = 0
       THEN update_progress(<<stage_progress(mi)>>,
                            progress_total_of(Len(msgs)))
       ELSE no_progress
  /\ UNCHANGED nonSyncVars

\* tasks_sync.py:441-446: set_seen_marked, commit
SyncSetSeenMarked ==
  /\ spc = "set_seen_marked"
  /\ rows' = [rows EXCEPT ![CurUid] = set_seen_marked(rows[CurUid])]
  /\ spc' = NextMessage
  /\ mi' = mi + 1
  /\ UNCHANGED <<srvSeen, msgs, origSeen, revert_seen, to_revert,
                 markTries, nruns, nresum, attRows, extRows, last_uid,
                 outcome, stageLog, markedOk, warned>>
  /\ no_progress
  /\ UNCHANGED nonSyncVars

\* tasks_sync.py:447-457: set_seen_marked raised (database error): the except
\* block of the mark stage records a warn event, the loop goes on
SyncSeenMarkedRaise ==
  /\ spc = "set_seen_marked"
  /\ warned' = warned \cup {CurUid}
  /\ spc' = NextMessage
  /\ mi' = mi + 1
  /\ UNCHANGED <<rows, srvSeen, msgs, origSeen, revert_seen, to_revert,
                 markTries, nruns, nresum, attRows, extRows, last_uid,
                 outcome, stageLog, markedOk>>
  /\ no_progress
  /\ UNCHANGED nonSyncVars

\* the task is over: its local variables, and the history kept of it, are
\* as before the first run; the next job has a new jobs row (repo.py:47)
LocalsGone ==
  /\ msgs' = <<>>
  /\ mi' = 0
  /\ origSeen' = {}
  /\ revert_seen' = FALSE
  /\ to_revert' = {}
  /\ markTries' = 0
  /\ last_uid' = 0
  /\ stageLog' = <<>>
  /\ markedOk' = {}
  /\ warned' = {}
  /\ progress_current' = NoProgress
  /\ progress_total' = 0
  /\ pcalls' = <<>>

\* tasks_sync.py:522-538: best-effort revert of the flags this run set; then
\* the task returns or the exception goes on to worker_sync.py:30-42, which
\* sets the job succeeded or failed
SyncFinally ==
  /\ spc = "finally"
  /\ \E kept \in SUBSET to_revert : srvSeen' = srvSeen \ (to_revert \ kept)
  /\ outcome' = IF outcome = "raising" THEN "failed" ELSE "succeeded"
  /\ spc' = "idle"
  /\ LocalsGone
  /\ UNCHANGED <<rows, nruns, nresum, attRows, extRows>>
  /\ UNCHANGED nonSyncVars

\* a stage of the loop raises: the loop body has no except clause around the
\* archive, index, summarize and export stages (tasks_sync.py:178-522 is
\* try/finally), so the exception leaves the loop through finally
SyncRaise ==
  /\ spc \in {"archive", "index", "summarize", "export", "set_exported"}
  /\ outcome' = "raising"
  /\ spc' = "finally"
  /\ UNCHANGED <<rows, srvSeen, msgs, mi, origSeen, revert_seen, to_revert,
                 markTries, nruns, nresum, attRows, extRows, last_uid,
                 stageLog, markedOk, warned>>
  /\ no_progress
  /\ UNCHANGED nonSyncVars

\* the worker process is killed (cancel) or crashes between two steps
SyncCrash ==
  /\ spc # "idle"
  /\ spc' = "idle"
  /\ outcome' = "none"
  /\ LocalsGone
  /\ UNCHANGED <<rows, srvSeen, nruns, nresum, attRows, extRows>>
  /\ UNCHANGED nonSyncVars

\* tasks_resummarize.py:329-338: set_analysis on a row of the day, commit
Resummarize(u) ==
  /\ nresum < MaxResum
  /\ rows[u].present
  /\ nresum' = nresum + 1
  /\ rows' = [rows EXCEPT ![u] = set_analysis(rows[u], "resummarize")]
  /\ UNCHANGED <<srvSeen, spc, msgs, mi, origSeen, revert_seen, to_revert,
                 markTries, nruns, attRows, extRows, last_uid, outcome,
                 stageLog, markedOk, warned>>
  /\ UNCHANGED <<progress_current, progress_total, pcalls>>
  /\ UNCHANGED nonSyncVars

NextSync ==
  \/ SyncBegin
  \/ SyncFetch
  \/ SyncArchive
  \/ SyncIndex
  \/ SyncSummarize
  \/ SyncExportNote
  \/ SyncSetExported
  \/ SyncMarkSeen
  \/ SyncSetSeenMarked
  \/ SyncSeenMarkedRaise
  \/ SyncFinally
  \/ SyncRaise
  \/ SyncCrash
  \/ \E u \in Uids : Resummarize(u)

SpecSync == Init /\ [][NextSync]_vars

\* ======================= archive of one message =========================
\* archive/mime_parts.py, archive/pipeline.py.  A file name is a stem and a
\* duplicate number: [stem |-> s, dup |-> 0] is "s.ext", dup i > 0 is
\* "s_i.ext".  File names of the message are taken as already sanitized.
MaxParts == 2
MaxArchives == 2
\* a part with stem "" carries no filename, one with cid "" no Content-ID
Parts == [stem : Stems \cup {""}, cid : Cids \cup {""}]
RECURSIVE SeqsUpTo(_, _)
SeqsUpTo(S, n) ==
  IF n = 0 THEN {<<>>}
  ELSE LET shorter == SeqsUpTo(S, n - 1)
       IN shorter \cup {Append(sq, x) : sq \in {t \in shorter : Len(t) = n - 1},
                                        x \in S}

\* _unique_path: the file name itself if no such file exists, else the first
\* of stem_1, stem_2, .. that does not exist
unique_path(dir, stem) ==
  IF [stem |-> stem, dup |-> 0] \notin dir
    THEN [stem |-> stem, dup |-> 0]
    ELSE LET i == CHOOSE k \in 1..(Cardinality(dir) + 1) :
                    /\ [stem |-> stem, dup |-> k] \notin dir
                    /\ \A j \in 1..(k - 1) : [stem |-> stem, dup |-> j] \in dir
         IN [stem |-> stem, dup |-> i]

\* extract_attachments: for each part in walk order, the file name (the
\* part's, or part_<counter> when it has none), _unique_path, write_bytes,
\* one SavedAttachment, cid_map[content_id] = rel.  st is the loop state.
RECURSIVE extract_loop(_, _)
extract_loop(parts, st) ==
  IF parts = <<>> THEN st
  ELSE LET part == Head(parts)
           named == part.stem # ""
           stem == IF named THEN <<part.stem, 0>> ELSE <<"part", st.counter>>
           file_path == unique_path(st.dir, stem)
       IN extract_loop(Tail(parts),
            [dir |-> st.dir \cup {file_path},
             counter |-> IF named THEN st.counter ELSE st.counter + 1,
             saved |-> Append(st.saved, file_path),
             cid_map |-> IF part.cid # ""
                           THEN [st.cid_map EXCEPT ![part.cid] = <<file_path>>]
                           ELSE st.cid_map])
extract_attachments(parts, dir) ==
  extract_loop(parts, [dir |-> dir, counter |-> 1, saved |-> <<>>,
                       cid_map |-> [c \in Cids |-> <<>>]])

\* html_rewrite.py:161-166: a cid: value becomes the mapped rel_path when the
\* cid map has one, and stays as it is otherwise
rewrite_cid(v, cid_map) ==
  IF cid_map[v.cid] # <<>>
    THEN [kind |-> "attachments", file |-> cid_map[v.cid][1]]
    ELSE v

\* archive_message on the message directory: extract_attachments, then the
\* html body rewritten with the cid map and written as rendered.html
archive_dir(parts, html, dir) ==
  LET ex == extract_attachments(parts, dir)
  IN [files |-> ex.dir,
      attachments |-> ex.saved,
      cid_map |-> ex.cid_map,
      rendered |-> [k \in 1..Len(html) |-> rewrite_cid(html[k], ex.cid_map)]]

\* the inputs: a message and an empty message directory
InitArchive ==
  /\ InitJobs
  /\ InitSyncIdle
  /\ InitRewriteIdle
  /\ InitLlmIdle
  /\ InitMoreIdle
  /\ amsg \in SeqsUpTo(Parts, MaxParts)
  /\ ahtml \in SeqsUpTo({[kind |-> "cid", cid |-> c] : c \in Cids}, 1)
  /\ afs = {}
  /\ ares = <<>>

\* tasks_sync.py:238: one archive_message call on the directory
ArchiveMessage ==
  /\ Len(ares) < MaxArchives
  /\ LET r == archive_dir(amsg, ahtml, afs) IN
       /\ afs' = r.files
       /\ ares' = Append(ares, r)
  /\ UNCHANGED <<amsg, ahtml>>
  /\ UNCHANGED nonArchVars

NextArchive ==
  \/ ArchiveMessage

SpecArchive == InitArchive /\ [][NextArchive]_vars


\* ======================= html rewrite and downloads =====================
\* archive/html_rewrite.py, util/net.py.  One call of
\* rewrite_html_and_download_assets: the src/href/poster values of the html in
\* document order, then the url(...) values of style attributes and <style>
\* blocks.
MaxRefs == 2
MaxBudget == 2
MaxChunk == 2
max_assets == 120

\* what urlparse(url).hostname is: none, the name localhost, an IPv4/IPv6
\* literal (private or public by _is_private_ip), or a DNS name
Hosts == {"", "localhost", "ip_private", "ip_public", "name"}
Urls == {[kind |-> "url", scheme |-> "http", host |-> h] : h \in Hosts}
          \cup {[kind |-> "url", scheme |-> "https", host |-> "name"]}
\* a value that starts neither with cid: nor with http:// or https://: a
\* scheme-relative URL (also mailto:, a relative path, HTTP://.., ftp://..)
OtherRefs == {[kind |-> "other", ref |-> "//host/path"]}
RefValues == Urls \cup {[kind |-> "cid", cid |-> c] : c \in Cids} \cup OtherRefs

\* what getaddrinfo does within the 3 s of fut.result: it times out, fails,
\* or returns addresses that are public or not
DnsOutcomes ==
  {[st |-> "timeout", addrs |-> {}], [st |-> "failed", addrs |-> {}]}
    \cup {[st |-> "ok", addrs |-> A] : A \in (SUBSET {"public", "private"}) \ {{}}}

\* getaddrinfo is only called for a DNS name
DnsFor(url) ==
  IF url.host = "name" THEN DnsOutcomes ELSE {[st |-> "none", addrs |-> {}]}

\* _is_private_ip, on the class of the address
is_private_ip(class) == class # "public"

\* _validate_public_host: "" when it returns, else the DownloadBlocked reason
validate_public_host(url, dns) ==
  IF url.host = "" THEN "missing hostname"
  ELSE IF url.host = "localhost" THEN "localhost blocked"
  ELSE IF url.host \in {"ip_private", "ip_public"}
    THEN IF is_private_ip(IF url.host = "ip_public" THEN "public" ELSE "private")
           THEN "private ip blocked" ELSE ""
  ELSE IF dns.st = "timeout" THEN "dns resolve timeout"
  ELSE IF dns.st = "failed" THEN "dns resolve failed"
  ELSE IF \E a \in dns.addrs : is_private_ip(a) THEN "private ip blocked"
  ELSE ""

\* stream_download up to requests.get (net.py:94-101): "" when the request
\* is issued, else the DownloadBlocked reason
stream_download_check(url, late, dns) ==
  IF url.scheme \notin {"http", "https"} THEN "scheme not allowed"
  ELSE IF late THEN "time budget exceeded"
  ELSE validate_public_host(url, dns)

\* download() before stream_download (html_rewrite.py:79-103): the status of
\* the asset it returns at once, "" when it goes on to stream_download
download_skip(nassets, late, rem) ==
  IF nassets >= max_assets THEN "skipped_assets_limit"
  ELSE IF late THEN "skipped_time_budget"
  ELSE IF rem <= 0 THEN "skipped_limit"
  ELSE ""

ExternalAsset(url, rel, st, reason) ==
  [original_url |-> url, rel_path |-> rel, status |-> st, reason |-> reason]
\* external/<sha256(url)[:16]><ext>
external_rel(url) == [kind |-> "external", url |-> url]

CurRef == rrefs[ri]
\* the value left in the document for the current reference
Emit(v) == rout' = Append(rout, v)

\* the inputs: html, cid_map, max_total_bytes; state at html_rewrite.py:75
InitRewrite ==
  /\ InitJobs
  /\ InitSyncIdle
  /\ InitArchIdle
  /\ InitLlmIdle
  /\ InitMoreIdle
  /\ rrefs \in SeqsUpTo(RefValues, MaxRefs)
  /\ rnattr \in 0..Len(rrefs)
  /\ rcid_map \in [Cids -> {<<>>, <<[stem |-> <<"a", 0>>, dup |-> 0]>>}]
  /\ rbudget \in 0..MaxBudget
  /\ ri = 1
  /\ wpc = "next"
  /\ remaining = rbudget
  /\ assets = <<>>
  /\ rout = <<>>
  /\ written = 0
  /\ total = 0
  /\ received = 0
  /\ rcalls = <<>>

\* html_rewrite.py:161-166 / 179-184: a cid: value
RewriteCid ==
  /\ wpc = "next" /\ ri <= Len(rrefs)
  /\ CurRef.kind = "cid"
  /\ Emit(rewrite_cid(CurRef, rcid_map))
  /\ ri' = ri + 1
  /\ UNCHANGED <<rrefs, rnattr, rcid_map, rbudget, wpc, remaining, assets,
                 written, total, received, rcalls>>
  /\ UNCHANGED nonRewriteVars

\* html_rewrite.py:167 / 185, 190: a value that starts with neither prefix is
\* left as it is; nothing is recorded
RewriteOther ==
  /\ wpc = "next" /\ ri <= Len(rrefs)
  /\ CurRef.kind = "other"
  /\ Emit(CurRef)
  /\ ri' = ri + 1
  /\ UNCHANGED <<rrefs, rnattr, rcid_map, rbudget, wpc, remaining, assets,
                 written, total, received, rcalls>>
  /\ UNCHANGED nonRewriteVars

\* download(url) returns a skipped_* asset; the caller appends it
DownloadSkip ==
  /\ wpc = "next" /\ ri <= Len(rrefs)
  /\ CurRef.kind = "url"
  /\ \E late \in BOOLEAN :
       LET st == download_skip(Len(assets), late, remaining) IN
         /\ st # ""
         /\ assets' = Append(assets, ExternalAsset(CurRef, <<>>, st, ""))
  /\ Emit(CurRef)
  /\ ri' = ri + 1
  /\ UNCHANGED <<rrefs, rnattr, rcid_map, rbudget, wpc, remaining,
                 written, total, received, rcalls>>
  /\ UNCHANGED nonRewriteVars

\* stream_download raises DownloadBlocked before any request: the asset is
\* blocked:<reason>
DownloadBlocked ==
  /\ wpc = "next" /\ ri <= Len(rrefs)
  /\ CurRef.kind = "url"
  /\ download_skip(Len(assets), FALSE, remaining) = ""
  /\ \E late \in BOOLEAN, dns \in DnsFor(CurRef) :
       LET why == stream_download_check(CurRef, late, dns) IN
         /\ why # ""
         /\ assets' = Append(assets, ExternalAsset(CurRef, <<>>, "blocked", why))
         /\ rcalls' = Append(rcalls, [url |-> CurRef, late |-> late, dns |-> dns,
                                      requested |-> FALSE, why |-> why])
  /\ Emit(CurRef)
  /\ ri' = ri + 1
  /\ UNCHANGED <<rrefs, rnattr, rcid_map, rbudget, wpc, remaining,
                 written, total, received>>
  /\ UNCHANGED nonRewriteVars

\* stream_download passes its checks and issues requests.get (net.py:106)
DownloadRequest ==
  /\ wpc = "next" /\ ri <= Len(rrefs)
  /\ CurRef.kind = "url"
  /\ download_skip(Len(assets), FALSE, remaining) = ""
  /\ \E dns \in DnsFor(CurRef) :
       /\ stream_download_check(CurRef, FALSE, dns) = ""
       /\ rcalls' = Append(rcalls, [url |-> CurRef, late |-> FALSE, dns |-> dns,
                                    requested |-> TRUE, why |-> ""])
  /\ written' = 0
  /\ total' = 0
  /\ wpc' = "stream"
  /\ UNCHANGED <<rrefs, rnattr, rcid_map, rbudget, ri, remaining, assets,
                 rout, received>>
  /\ UNCHANGED nonRewriteVars

\* net.py:114-124 and html_rewrite.py:108-116: one chunk of the response
\* body; max_bytes is the remaining budget at the time of the call
StreamChunk ==
  /\ wpc = "stream"
  /\ \E c \in 1..MaxChunk :
       /\ total' = total + c
       /\ IF total + c > remaining
            THEN \* DownloadBlocked("download exceeds max_bytes")
                 /\ assets' = Append(assets, ExternalAsset(CurRef, <<>>,
                                 "blocked", "download exceeds max_bytes"))
                 /\ Emit(CurRef)
                 /\ ri' = ri + 1
                 /\ wpc' = "next"
                 /\ UNCHANGED <<written, received, remaining>>
            ELSE /\ written' = written + c
                 /\ received' = received + c
                 /\ UNCHANGED <<assets, rout, ri, wpc, remaining>>
  /\ UNCHANGED <<rrefs, rnattr, rcid_map, rbudget, rcalls>>
  /\ UNCHANGED nonRewriteVars

\* the response body ends: remaining -= written, the file is written, the
\* asset is downloaded and the reference points to external/..
StreamEnd ==
  /\ wpc = "stream"
  /\ remaining' = remaining - written
  /\ assets' = Append(assets, ExternalAsset(CurRef, <<external_rel(CurRef)>>,
                                            "downloaded", ""))
  /\ Emit(external_rel(CurRef))
  /\ ri' = ri + 1
  /\ wpc' = "next"
  /\ UNCHANGED <<rrefs, rnattr, rcid_map, rbudget, written, total, received,
                 rcalls>>
  /\ UNCHANGED nonRewriteVars

\* the request or the stream raises (status, connection, read timeout:
\* error:<e>) or the deadline passes between two chunks (blocked:time budget
\* exceeded); remaining is left as it was
StreamError ==
  /\ wpc = "stream"
  /\ \E st \in {<<"error", "">>, <<"blocked", "time budget exceeded">>} :
       assets' = Append(assets, ExternalAsset(CurRef, <<>>, st[1], st[2]))
  /\ Emit(CurRef)
  /\ ri' = ri + 1
  /\ wpc' = "next"
  /\ UNCHANGED <<rrefs, rnattr, rcid_map, rbudget, remaining, written, total,
                 received, rcalls>>
  /\ UNCHANGED nonRewriteVars

\* html_rewrite.py:207: return str(soup), assets
RewriteReturn ==
  /\ wpc = "next" /\ ri > Len(rrefs)
  /\ wpc' = "done"
  /\ UNCHANGED <<rrefs, rnattr, rcid_map, rbudget, ri, remaining, assets,
                 rout, written, total, received, rcalls>>
  /\ UNCHANGED nonRewriteVars

NextRewrite ==
  \/ RewriteCid
  \/ RewriteOther
  \/ DownloadSkip
  \/ DownloadBlocked
  \/ DownloadRequest
  \/ StreamChunk
  \/ StreamEnd
  \/ StreamError
  \/ RewriteReturn

SpecRewrite == InitRewrite /\ [][NextRewrite]_vars


\* ======================= long summarize =================================
\* llm/long_summarize.py.  A body is its paragraphs (their lengths in chars,
\* joined by blank lines) and the whitespace around them.  A summary text is
\* a sequence of lines; the label "core" stands for the first section label
\* the code writes after "### ", "detail" for the second, "both labels" for
\* running text that mentions the two labels, "x" for any other text of more
\* than one char.
MaxParas == 2
MaxLines == 2
ParaLens == {3000, 5000}
PadLens == {0, 13000}
Tiers == {"fast", "standard", "cloud"}

Header(t) == [kind |-> "header", text |-> t, bold |-> FALSE]
Bullet(t, b) == [kind |-> "bullet", text |-> t, bold |-> b]
Plain(t) == [kind |-> "plain", text |-> t, bold |-> FALSE]
Lines == {Header("core"), Header("detail"), Plain("BLUF"),
          Bullet("x", FALSE), Bullet("x", TRUE),
          Plain("(LLM unavailable)"), Plain("both labels")}
\* what a provider may answer to the single call and to the reduce call
SummaryTexts == SeqsUpTo(Lines, MaxLines)
\* what a provider may answer to a map call
PartTexts == {<<>>, <<Bullet("x", TRUE)>>, <<Plain("(LLM unavailable)")>>}

\* summarize_email_long_aware, tier-aware configuration (273-296); the
\* caller passes the default LongSummarizeConfig, chunk_chars = 2400
active_cfg(tier, max_chunks) ==
  IF tier = "cloud"
    THEN [chunk_if_body_chars_over |-> 12000, chunk_chars |-> 10000,
          max_chunks |-> max_chunks, max_bullets |-> 15]
  ELSE IF tier = "standard"
    THEN [chunk_if_body_chars_over |-> 6000, chunk_chars |-> 5000,
          max_chunks |-> max_chunks, max_bullets |-> 15]
  ELSE [chunk_if_body_chars_over |-> 4500, chunk_chars |-> 2400,
        max_chunks |-> max_chunks, max_bullets |-> 15]

RECURSIVE SumSeq(_)
SumSeq(sq) == IF sq = <<>> THEN 0 ELSE Head(sq) + SumSeq(Tail(sq))
\* len("\n\n".join(cur))
JoinedLen(cur) == IF cur = <<>> THEN 0 ELSE SumSeq(cur) + 2 * (Len(cur) - 1)
\* len(body_s)
BodyLen(paras, pad) == pad + JoinedLen(paras)

\* max_chunks is not None and len(chunks) >= max_chunks; None is 0 here
CapReached(chs, max_chunks) == max_chunks # 0 /\ Len(chs) >= max_chunks

\* the hard split of one paragraph: p[i : i + chunk_chars] for i in
\* range(0, plen, chunk_chars), until the cap is reached
RECURSIVE hard_split(_, _, _, _)
hard_split(chs, rest, chunk_chars, max_chunks) ==
  IF rest <= 0 \/ CapReached(chs, max_chunks) THEN chs
  ELSE hard_split(Append(chs, IF rest < chunk_chars THEN rest ELSE chunk_chars),
                  rest - chunk_chars, chunk_chars, max_chunks)

\* the paragraph loop of _chunk_text; st.stop is the break
RECURSIVE chunk_loop(_, _, _, _)
chunk_loop(paras, st, chunk_chars, max_chunks) ==
  IF paras = <<>> \/ st.stop THEN st
  ELSE
    LET plen == Head(paras)
        flushed == Append(st.chunks, JoinedLen(st.cur))
    IN
    IF plen > chunk_chars * 2
      THEN LET c1 == IF st.cur # <<>> THEN flushed ELSE st.chunks
               stop1 == st.cur # <<>> /\ CapReached(c1, max_chunks)
               c2 == IF stop1 THEN c1
                     ELSE hard_split(c1, plen, chunk_chars, max_chunks)
           IN chunk_loop(Tail(paras),
                [chunks |-> c2, cur |-> <<>>, cur_len |-> 0,
                 stop |-> stop1 \/ CapReached(c2, max_chunks)],
                chunk_chars, max_chunks)
    ELSE IF st.cur_len + plen + (IF st.cur # <<>> THEN 2 ELSE 0) > chunk_chars
              /\ st.cur # <<>>
      THEN IF CapReached(flushed, max_chunks)
             THEN [chunks |-> flushed, cur |-> <<>>, cur_len |-> 0,
                   stop |-> TRUE]
             ELSE chunk_loop(Tail(paras),
                    [chunks |-> flushed, cur |-> <<plen>>, cur_len |-> plen,
                     stop |-> FALSE],
                    chunk_chars, max_chunks)
    ELSE chunk_loop(Tail(paras),
           [chunks |-> st.chunks, cur |-> Append(st.cur, plen),
            cur_len |-> st.cur_len + plen + (IF st.cur_len # 0 THEN 2 ELSE 0),
            stop |-> FALSE],
           chunk_chars, max_chunks)

\* _chunk_text on the stripped body: the lengths of the chunks
chunk_text(paras, chunk_chars, max_chunks) ==
  LET st == chunk_loop(paras, [chunks |-> <<>>, cur |-> <<>>, cur_len |-> 0,
                               stop |-> FALSE], chunk_chars, max_chunks)
  IN IF st.cur # <<>> /\ (max_chunks = 0 \/ Len(st.chunks) < max_chunks)
       THEN Append(st.chunks, JoinedLen(st.cur))
       ELSE st.chunks

\* _normalize_summary_section_labels: a line that is one of the known labels
\* (with or without #, [ ]) becomes the section header
normalize_summary_section_labels(text) ==
  [k \in 1..Len(text) |->
     IF text[k].kind \in {"header", "plain"} /\ text[k].text \in {"core", "BLUF"}
       THEN Header("core")
     ELSE IF text[k].kind \in {"header", "plain"} /\ text[k].text = "detail"
       THEN Header("detail")
     ELSE text[k]]

\* "haeksim-yoyak" / "sangse-yoyak" in s.lower().replace(" ", "")
MentionsCore(text) ==
  \E k \in 1..Len(text) : text[k].text \in {"core", "both labels"}
MentionsDetail(text) ==
  \E k \in 1..Len(text) : text[k].text \in {"detail", "both labels"}

\* _extract_bullets: "**" removed, one item per non-empty line, the markers
\* in front of it stripped
extract_bullets(text) == [k \in 1..Len(text) |-> text[k].text]

RECURSIVE dedupe_keep_order(_)
dedupe_keep_order(items) ==
  IF items = <<>> THEN <<>>
  ELSE LET front == dedupe_keep_order(SubSeq(items, 1, Len(items) - 1))
           last == items[Len(items)]
       IN IF \E k \in 1..Len(front) : front[k] = last
            THEN front ELSE Append(front, last)

Prefix(sq, n) == SubSeq(sq, 1, IF Len(sq) < n THEN Len(sq) ELSE n)
\* "\n".join(["- " + b for b in items])
BulletLines(items) == [k \in 1..Len(items) |-> Bullet(items[k], FALSE)]

\* _ensure_core_detail_sections
ensure_core_detail_sections(text) ==
  LET s == normalize_summary_section_labels(text) IN
  IF s = <<>> THEN s
  ELSE IF MentionsCore(s) /\ MentionsDetail(s) THEN s
  ELSE
    LET cleaned == dedupe_keep_order(
                     SelectSeq(extract_bullets(s),
                               LAMBDA t : t \notin {"core", "detail"}))
        core == Prefix(cleaned, 3)
        rest == SubSeq(cleaned, 4, IF Len(cleaned) < 10 THEN Len(cleaned) ELSE 10)
        detail == IF rest = <<>> THEN Prefix(cleaned, 7) ELSE rest
    IN IF cleaned = <<>>
         THEN <<Header("core"), Bullet("(no summary item)", FALSE),
                Header("detail"), Bullet("(no summary item)", FALSE)>>
         ELSE <<Header("core")>> \o BulletLines(core)
                \o <<Header("detail")>> \o BulletLines(detail)

\* _is_structured: "###" in s (the texts here hold no blank lines)
is_structured(text) == \E k \in 1..Len(text) : text[k].kind = "header"

\* long_summarize.py:421-433: the reduce answer made into the final text
synth_text(answer) ==
  LET raw_synth == ensure_core_detail_sections(answer) IN
  IF is_structured(raw_synth) THEN raw_synth
  ELSE BulletLines(extract_bullets(raw_synth))

\* long_summarize.py:441-453: the fallback to the merged part bullets, the
\* section check, the last resort
finish_text(final, bullets, max_bullets) ==
  LET f1 == IF final = <<>>
              THEN BulletLines(Prefix(dedupe_keep_order(bullets), max_bullets))
              ELSE final
      f2 == ensure_core_detail_sections(f1)
  IN IF f2 = <<>> THEN <<Plain("(no summary)")>> ELSE f2

Cfg == active_cfg(ltier, lmax_chunks)

\* the values handed to on_progress, as fractions; the callback is given
\* total_units = len(chunks) + 1
total_units(chs) == Len(chs) + 1
\* on_progress(1.0)
One == [num |-> 1, den |-> 1]
\* on_progress(i / total_units)
on_progress_per_chunk(i, units) == [num |-> i, den |-> units - 1]
on_progress_fraction(i, units) == [num |-> i, den |-> units]

\* the inputs of one summarize_email_long_aware call
InitLlm ==
  /\ InitJobs
  /\ InitSyncIdle
  /\ InitArchIdle
  /\ InitRewriteIdle
  /\ InitMoreIdle
  /\ ltier \in Tiers
  /\ lparas \in SeqsUpTo(ParaLens, MaxParas)
  /\ lpad \in PadLens
  /\ lmax_chunks \in {0, 2}
  /\ ldetail \in BOOLEAN
  /\ lpc = "start"
  /\ lchunks = <<>>
  /\ li = 0
  /\ all_bullets = <<>>
  /\ final_summary_text = <<>>
  /\ lsummary = <<>>
  /\ lcalls = <<>>
  /\ lprogress = <<>>

\* long_summarize.py:298-305: a body within the threshold, one call
LlmShort ==
  /\ lpc = "start"
  /\ BodyLen(lparas, lpad) <= Cfg.chunk_if_body_chars_over
  /\ \E answer \in SummaryTexts :
       lsummary' = ensure_core_detail_sections(answer)
  /\ lcalls' = Append(lcalls, "single")
  /\ lpc' = "returned"
  /\ UNCHANGED <<ltier, lparas, lpad, lmax_chunks, ldetail, lchunks, li,
                 all_bullets, final_summary_text>>
  /\ UNCHANGED lprogress
  /\ UNCHANGED nonLlmVars

\* long_summarize.py:307-319: a long body that gives no chunk, one call on
\* body_s[: chunk_chars]
LlmNoChunks ==
  /\ lpc = "start"
  /\ BodyLen(lparas, lpad) > Cfg.chunk_if_body_chars_over
  /\ chunk_text(lparas, Cfg.chunk_chars, Cfg.max_chunks) = <<>>
  /\ \E answer \in SummaryTexts :
       lsummary' = ensure_core_detail_sections(answer)
  /\ lcalls' = Append(lcalls, "single")
  /\ lpc' = "returned"
  /\ UNCHANGED <<ltier, lparas, lpad, lmax_chunks, ldetail, lchunks, li,
                 all_bullets, final_summary_text>>
  /\ UNCHANGED lprogress
  /\ UNCHANGED nonLlmVars

\* long_summarize.py:307-328: a long body cut into chunks
LlmChunk ==
  /\ lpc = "start"
  /\ BodyLen(lparas, lpad) > Cfg.chunk_if_body_chars_over
  /\ lchunks' = chunk_text(lparas, Cfg.chunk_chars, Cfg.max_chunks)
  /\ lchunks' # <<>>
  /\ li' = 1
  /\ lpc' = "map"
  /\ UNCHANGED <<ltier, lparas, lpad, lmax_chunks, ldetail, all_bullets,
                 final_summary_text, lsummary, lcalls>>
  /\ UNCHANGED lprogress
  /\ UNCHANGED nonLlmVars

\* long_summarize.py:337-362: the call for chunk i, then on_progress; an
\* exception of on_detail or of on_progress is swallowed here
LlmMap ==
  /\ lpc = "map"
  /\ \E answer \in PartTexts :
       all_bullets' = all_bullets \o extract_bullets(answer)
  /\ lcalls' = Append(lcalls, "map")
  /\ li' = li + 1
  /\ lpc' = IF li < Len(lchunks) THEN "map" ELSE "synth"
  /\ UNCHANGED <<ltier, lparas, lpad, lmax_chunks, ldetail, lchunks,
                 final_summary_text, lsummary>>
  /\ lprogress' = Append(lprogress, on_progress_fraction(li, total_units(lchunks)))
  /\ UNCHANGED nonLlmVars

\* long_summarize.py:345: provider.summarize raises in the chunk loop, which
\* has no except clause
LlmMapRaise ==
  /\ lpc = "map"
  /\ lcalls' = Append(lcalls, "map")
  /\ lpc' = "raised"
  /\ UNCHANGED <<ltier, lparas, lpad, lmax_chunks, ldetail, lchunks, li,
                 all_bullets, final_summary_text, lsummary>>
  /\ UNCHANGED lprogress
  /\ UNCHANGED nonLlmVars

\* long_summarize.py:366-431: the synthesis call returns
LlmSynth ==
  /\ lpc = "synth"
  /\ \E answer \in SummaryTexts : final_summary_text' = synth_text(answer)
  /\ lcalls' = Append(lcalls, "reduce")
  /\ lpc' = "finish"
  /\ UNCHANGED <<ltier, lparas, lpad, lmax_chunks, ldetail, lchunks, li,
                 all_bullets, lsummary>>
  /\ UNCHANGED lprogress
  /\ UNCHANGED nonLlmVars

\* long_summarize.py:366-433: inside the try, on_detail (when given) raises
\* before the call is made, or the call raises; final_summary_text = ""
LlmSynthRaise ==
  /\ lpc = "synth"
  /\ \/ /\ ldetail
        /\ UNCHANGED lcalls
     \/ lcalls' = Append(lcalls, "reduce")
  /\ final_summary_text' = <<>>
  /\ lpc' = "finish"
  /\ UNCHANGED <<ltier, lparas, lpad, lmax_chunks, ldetail, lchunks, li,
                 all_bullets, lsummary>>
  /\ UNCHANGED lprogress
  /\ UNCHANGED nonLlmVars

\* long_summarize.py:435-460: on_progress(1.0), fallback, section check,
\* return
LlmFinish ==
  /\ lpc = "finish"
  /\ lsummary' = finish_text(final_summary_text, all_bullets, Cfg.max_bullets)
  /\ lpc' = "returned"
  /\ UNCHANGED <<ltier, lparas, lpad, lmax_chunks, ldetail, lchunks, li,
                 all_bullets, final_summary_text, lcalls>>
  /\ lprogress' = Append(lprogress, One)
  /\ UNCHANGED nonLlmVars

NextLlm ==
  \/ LlmShort
  \/ LlmNoChunks
  \/ LlmChunk
  \/ LlmMap
  \/ LlmMapRaise
  \/ LlmSynth
  \/ LlmSynthRaise
  \/ LlmFinish

SpecLlm == InitLlm /\ [][NextLlm]_vars


\* ======================= file writes of the archive =====================
\* One write of one file of a message directory, with a crash of the process
\* possible between any two steps.  A file is [exists, data]; the bytes reach
\* the disk one at a time.
MaxData == 2
Bytes == {0, 1}
Datas == SeqsUpTo(Bytes, MaxData)

\* archive/pipeline.py: raw.eml by atomic_write_bytes, body.txt, body.html
\* and rendered.html by atomic_write_text
AtomicTargets == {"raw.eml", "body.txt", "body.html", "rendered.html"}
\* attachments (mime_parts.py) and external assets (html_rewrite.py) are
\* written with Path.write_bytes
DirectTargets == {"attachment", "external"}
Targets == AtomicTargets \cup DirectTargets

\* what the target path can hold before the write: _unique_path gives an
\* attachment a name that does not exist; every other path may hold the file
\* of an earlier archive of the message
PriorFiles(t) ==
  IF t = "attachment" THEN {NoFile} ELSE {NoFile} \cup {FileOf(d) : d \in Datas}

InitWrite ==
  /\ InitJobs /\ InitSyncIdle /\ InitArchIdle /\ InitRewriteIdle /\ InitLlmIdle
  /\ InitResumIdle /\ InitRefreshIdle /\ InitStreamIdle
  /\ ftarget \in Targets
  /\ fdata \in Datas
  /\ fprior \in PriorFiles(ftarget)
  /\ ffile = fprior
  /\ ftmp = NoFile
  /\ fpc = "start"

\* one more byte of data at the end of file f
append_byte(f, data) == FileOf(Append(f.data, data[Len(f.data) + 1]))

\* ---- util/atomic_io.py atomic_write_bytes -------------------------------
\* tempfile.mkstemp(prefix = path.name + ".", dir = path.parent)
AtomicMkstemp ==
  /\ fpc = "start" /\ ftarget \in AtomicTargets
  /\ ftmp' = FileOf(<<>>)
  /\ fpc' = "tmp"
  /\ UNCHANGED <<ftarget, fdata, fprior, ffile>>
  /\ UNCHANGED nonFileVars

\* f.write(data)
AtomicWrite ==
  /\ fpc = "tmp" /\ Len(ftmp.data) < Len(fdata)
  /\ ftmp' = append_byte(ftmp, fdata)
  /\ UNCHANGED <<ftarget, fdata, fprior, ffile, fpc>>
  /\ UNCHANGED nonFileVars

\* f.write raises (disk full): the finally clause runs
AtomicWriteRaise ==
  /\ fpc = "tmp" /\ Len(ftmp.data) < Len(fdata)
  /\ fpc' = "finally"
  /\ UNCHANGED <<ftarget, fdata, fprior, ffile, ftmp>>
  /\ UNCHANGED nonFileVars

\* f.flush(); os.fsync(f.fileno()); close
AtomicFsync ==
  /\ fpc = "tmp" /\ ftmp.data = fdata
  /\ fpc' = "synced"
  /\ UNCHANGED <<ftarget, fdata, fprior, ffile, ftmp>>
  /\ UNCHANGED nonFileVars

\* tmp_path.replace(path)
AtomicReplace ==
  /\ fpc = "synced"
  /\ ffile' = ftmp
  /\ ftmp' = NoFile
  /\ fpc' = "finally"
  /\ UNCHANGED <<ftarget, fdata, fprior>>
  /\ UNCHANGED nonFileVars

\* finally: if tmp_path.exists(): tmp_path.unlink()
AtomicFinally ==
  /\ fpc = "finally"
  /\ ftmp' = NoFile
  /\ fpc' = "done"
  /\ UNCHANGED <<ftarget, fdata, fprior, ffile>>
  /\ UNCHANGED nonFileVars

\* ---- Path.write_bytes ----------------------------------------------------
\* open(path, "wb"): the path is created or truncated
write_bytes_open(f) == FileOf(<<>>)

WriteBytesOpen ==
  /\ fpc = "start" /\ ftarget \in DirectTargets
  /\ ffile' = write_bytes_open(ffile)
  /\ fpc' = "direct"
  /\ UNCHANGED <<ftarget, fdata, fprior, ftmp>>
  /\ UNCHANGED nonFileVars

WriteBytesWrite ==
  /\ fpc = "direct" /\ ffile.exists /\ Len(ffile.data) < Len(fdata)
  /\ ffile' = append_byte(ffile, fdata)
  /\ UNCHANGED <<ftarget, fdata, fprior, ftmp, fpc>>
  /\ UNCHANGED nonFileVars

WriteBytesClose ==
  /\ fpc = "direct" /\ ffile = FileOf(fdata)
  /\ fpc' = "done"
  /\ UNCHANGED <<ftarget, fdata, fprior, ffile, ftmp>>
  /\ UNCHANGED nonFileVars

\* the process is killed or the machine stops: the files stay as they are
WriteCrash ==
  /\ fpc \notin {"done", "crashed"}
  /\ fpc' = "crashed"
  /\ UNCHANGED <<ftarget, fdata, fprior, ffile, ftmp>>
  /\ UNCHANGED nonFileVars

NextWrite ==
  \/ AtomicMkstemp
  \/ AtomicWrite
  \/ AtomicWriteRaise
  \/ AtomicFsync
  \/ AtomicReplace
  \/ AtomicFinally
  \/ WriteBytesOpen
  \/ WriteBytesWrite
  \/ WriteBytesClose
  \/ WriteCrash

SpecWrite == InitWrite /\ [][NextWrite]_vars

\* ======================= resummarize of one day =========================
\* jobs/tasks_resummarize.py resummarize_day_task.run on a messages table of
\* MaxMsgs ids.  internal_date grows with the id, so ORDER BY internal_date
\* is the order of the ids; a row is of the day asked for or of another day.
MaxMsgs == 2
MsgIds == 1..MaxMsgs
StoredSummaries == {"", "(LLM unavailable)", "a summary"}
LlmSummaries == {"a new summary", "(LLM unavailable)"}
NoRow == [present |-> FALSE, inday |-> FALSE, summary |-> "", tags |-> "old",
          topics |-> "old", summarized_at |-> 0]
MessageRows ==
  {NoRow} \cup [present : {TRUE}, inday : BOOLEAN, summary : StoredSummaries,
                tags : {"old"}, topics : {"old"}, summarized_at : {0}]

\* _needs_resummarize on the summaries of the model: empty after strip, or
\* holding "llm unavailable" in lower case
needs_resummarize(summary) == summary \in {"", "(LLM unavailable)"}

\* the ids of a set as a list in ascending order
RECURSIVE AscList(_)
AscList(S) ==
  IF S = {} THEN <<>>
  ELSE LET lo == CHOOSE x \in S : \A y \in S : x <= y
       IN <<lo>> \o AscList(S \ {lo})

\* list_messages_for_resummarize_by_ids: WHERE id IN (...)
list_messages_for_resummarize_by_ids(tab, ids) ==
  {i \in MsgIds : tab[i].present /\ i \in ids}
\* list_messages_for_resummarize_by_date: WHERE internal_date LIKE day%
list_messages_for_resummarize_by_date(tab) ==
  {i \in MsgIds : tab[i].present /\ tab[i].inday}

\* tasks_resummarize.py:100-121: rows, then targets; message_ids = {} stands
\* for None and for the empty list
select_targets_all(tab, ids, failed) ==
  IF ids # {} THEN AscList(list_messages_for_resummarize_by_ids(tab, ids))
  ELSE AscList(list_messages_for_resummarize_by_date(tab))
select_targets(tab, ids, failed) ==
  IF ids # {} THEN AscList(list_messages_for_resummarize_by_ids(tab, ids))
  ELSE IF failed
    THEN AscList({i \in list_messages_for_resummarize_by_date(tab) :
                    needs_resummarize(tab[i].summary)})
  ELSE AscList(list_messages_for_resummarize_by_date(tab))

\* set_analysis as resummarize calls it: summary, tags, topics, summarized_at
\* of the row with the id; ts is the time of the call
set_analysis_at(r, text, ts) ==
  IF r.present
    THEN [r EXCEPT !.summary = text, !.tags = "new", !.topics = "new",
                   !.summarized_at = ts]
    ELSE r

Event(level, id) == [level |-> level, message_id |-> id]
CurTarget == targets[ti]

InitResum ==
  /\ InitJobs /\ InitSyncIdle /\ InitArchIdle /\ InitRewriteIdle /\ InitLlmIdle
  /\ InitFileIdle /\ InitRefreshIdle /\ InitStreamIdle
  /\ mrows0 \in [MsgIds -> MessageRows]
  /\ mrows = mrows0
  /\ message_ids \in SUBSET MsgIds
  /\ only_failed \in BOOLEAN
  /\ targets = <<>>
  /\ ti = 0
  /\ zpc = "list"
  /\ zcancel = FALSE
  /\ zres = ""
  /\ zclock = 0
  /\ mevents = <<>>

\* tasks_resummarize.py:100-156: list the rows, choose the targets, report;
\* return at once when there is none
ResumList ==
  /\ zpc = "list"
  /\ targets' = select_targets(mrows, message_ids, only_failed)
  /\ ti' = 1
  /\ mevents' = IF targets' = <<>>
                  THEN mevents \o <<Event("info", 0), Event("info", 0)>>
                  ELSE Append(mevents, Event("info", 0))
  /\ zpc' = IF targets' = <<>> THEN "done" ELSE "item"
  /\ UNCHANGED <<mrows0, mrows, message_ids, only_failed, zcancel, zres,
                 zclock>>
  /\ UNCHANGED nonResumVars

\* the runner sets the cancel event of the job (runner.py cancel)
ResumCancelSet ==
  /\ zpc \notin {"done", "raised"} /\ ~zcancel
  /\ zcancel' = TRUE
  /\ UNCHANGED <<mrows0, mrows, message_ids, only_failed, targets, ti, zpc,
                 zres, zclock, mevents>>
  /\ UNCHANGED nonResumVars

\* tasks_resummarize.py:158-160: if cancel.is_set(): break
ResumBreak ==
  /\ zpc = "item" /\ zcancel
  /\ zpc' = "after_loop"
  /\ UNCHANGED <<mrows0, mrows, message_ids, only_failed, targets, ti,
                 zcancel, zres, zclock, mevents>>
  /\ UNCHANGED nonResumVars

\* tasks_resummarize.py:162-248: progress, item and stage events, read the body
ResumRead ==
  /\ zpc = "item" /\ ~zcancel
  /\ mevents' = mevents \o <<Event("info", 0), Event("detail", CurTarget),
                             Event("detail", 0), Event("detail", 0)>>
  /\ zpc' = "llm"
  /\ UNCHANGED <<mrows0, mrows, message_ids, only_failed, targets, ti,
                 zcancel, zres, zclock>>
  /\ UNCHANGED nonResumVars

\* tasks_resummarize.py:283-291: summarize_email_long_aware returns
ResumLlm ==
  /\ zpc = "llm"
  /\ zres' \in LlmSummaries
  /\ zpc' = "save"
  /\ UNCHANGED <<mrows0, mrows, message_ids, only_failed, targets, ti,
                 zcancel, zclock, mevents>>
  /\ UNCHANGED nonResumVars

\* tasks_resummarize.py:283-291: the call raises; run has no except for it
ResumLlmRaise ==
  /\ zpc = "llm"
  /\ zpc' = "raised"
  /\ UNCHANGED <<mrows0, mrows, message_ids, only_failed, targets, ti,
                 zcancel, zres, zclock, mevents>>
  /\ UNCHANGED nonResumVars

\* tasks_resummarize.py:295-340: stage and timing events, set_analysis, commit
ResumSetAnalysis ==
  /\ zpc = "save"
  /\ zclock' = zclock + 1
  /\ mrows' = [mrows EXCEPT
                 ![CurTarget] = set_analysis_at(mrows[CurTarget], zres, zclock')]
  /\ mevents' = mevents \o <<Event("detail", 0), Event("info", 0)>>
  /\ zpc' = "event"
  /\ UNCHANGED <<mrows0, message_ids, only_failed, targets, ti, zcancel, zres>>
  /\ UNCHANGED nonResumVars

\* tasks_resummarize.py:342-354: add_event level message_updated
ResumEvent ==
  /\ zpc = "event"
  /\ mevents' = Append(mevents, Event("message_updated", CurTarget))
  /\ zpc' = "export"
  /\ UNCHANGED <<mrows0, mrows, message_ids, only_failed, targets, ti,
                 zcancel, zres, zclock>>
  /\ UNCHANGED nonResumVars

\* tasks_resummarize.py:356-392: stage event, export_email_note; a failure
\* of the export is ignored (continue)
ResumExport ==
  /\ zpc = "export"
  /\ mevents' = Append(mevents, Event("detail", 0))
  /\ ti' = ti + 1
  /\ zpc' = IF ti < Len(targets) THEN "item" ELSE "after_loop"
  /\ UNCHANGED <<mrows0, mrows, message_ids, only_failed, targets, zcancel,
                 zres, zclock>>
  /\ UNCHANGED nonResumVars

\* tasks_resummarize.py:394-445: final progress, daily note and overview
\* (best effort, no message row is written)
ResumFinish ==
  /\ zpc = "after_loop"
  /\ zpc' = "done"
  /\ UNCHANGED <<mrows0, mrows, message_ids, only_failed, targets, ti,
                 zcancel, zres, zclock, mevents>>
  /\ UNCHANGED nonResumVars

NextResum ==
  \/ ResumList
  \/ ResumCancelSet
  \/ ResumBreak
  \/ ResumRead
  \/ ResumLlm
  \/ ResumLlmRaise
  \/ ResumSetAnalysis
  \/ ResumEvent
  \/ ResumExport
  \/ ResumFinish

SpecResum == InitResum /\ [][NextResum]_vars

\* ======================= refresh of the daily overviews =================
\* jobs/tasks_refresh_overviews.py refresh_overviews_task.run.  Days are
\* numbered in calendar order; a timestamp is a number, 0 for NULL; _now() is
\* later than every stored timestamp.
MaxDays == 2
MaxTs == 2
DayKeys == 1..MaxDays
Stamps == 0..MaxTs
\* the messages of one day: none; or some, with MAX(summarized_at) and
\* whether any of them has a non-empty summary
DayMessages ==
  {[has_msgs |-> FALSE, max_summarized_at |-> 0, sums |-> FALSE]} \cup
  {dm \in [has_msgs : {TRUE}, max_summarized_at : Stamps, sums : BOOLEAN] :
     dm.sums => dm.max_summarized_at # 0}
Now == MaxTs + 1

\* the ids of a set as a list in descending order (ORDER BY day DESC)
DescList(S) ==
  LET asc == AscList(S) IN [k \in 1..Len(asc) |-> asc[Len(asc) + 1 - k]]

\* _normalize_days: the valid keys without repetition, in the order given
normalize_days(keys) == AscList(keys)
\* SELECT DISTINCT substr(internal_date, 1, 10) ... ORDER BY day DESC
discover_days(tab) == DescList({d \in DayKeys : tab[d].has_msgs})

\* tasks_refresh_overviews.py:100-106: the freshness test of one day
skip_fresh(force, normalized, max_msg_ts, ov_ts) ==
  /\ ~force
  /\ normalized = <<>>
  /\ max_msg_ts # 0
  /\ ov_ts # 0
  /\ ov_ts >= max_msg_ts

CurDay == days[oi]
\* repo.add_event with a text about day d
DayEvent(level, d) == [level |-> level, day |-> d]
\* tasks_refresh_overviews.py:122-133: the event of a refresh that runs
\* although the timestamps say the day is fresh
forced_note(log) ==
  IF daymsgs[CurDay].max_summarized_at # 0 /\ overviews[CurDay] # 0
     /\ overviews[CurDay] >= daymsgs[CurDay].max_summarized_at
    THEN Append(log, DayEvent("info", CurDay))
    ELSE log

InitRefresh ==
  /\ InitJobs /\ InitSyncIdle /\ InitArchIdle /\ InitRewriteIdle /\ InitLlmIdle
  /\ InitFileIdle /\ InitResumIdle /\ InitStreamIdle
  /\ daymsgs \in [DayKeys -> DayMessages]
  /\ overviews0 \in [DayKeys -> Stamps]
  /\ overviews = overviews0
  /\ date_keys \in SUBSET DayKeys
  /\ force_refresh \in BOOLEAN
  /\ days = <<>>
  /\ oi = 0
  /\ opc = "start"
  /\ ocancel = FALSE
  /\ ocalls = <<>>
  /\ oevents = <<>>

\* tasks_refresh_overviews.py:53-75: the days to handle
RefreshDays ==
  /\ opc = "start"
  /\ days' = IF normalize_days(date_keys) # <<>>
               THEN normalize_days(date_keys)
               ELSE discover_days(daymsgs)
  /\ oi' = 1
  /\ opc' = IF days' = <<>> THEN "done" ELSE "day"
  /\ UNCHANGED <<daymsgs, overviews0, overviews, date_keys, force_refresh,
                 ocancel, ocalls>>
  /\ UNCHANGED oevents
  /\ UNCHANGED nonRefreshVars

\* the runner sets the cancel event of the job
RefreshCancelSet ==
  /\ opc \in {"start", "day"} /\ ~ocancel
  /\ ocancel' = TRUE
  /\ UNCHANGED <<daymsgs, overviews0, overviews, date_keys, force_refresh,
                 days, oi, opc, ocalls>>
  /\ UNCHANGED oevents
  /\ UNCHANGED nonRefreshVars

\* tasks_refresh_overviews.py:78-79: if cancel.is_set(): break
RefreshBreak ==
  /\ opc = "day" /\ ocancel
  /\ opc' = "done"
  /\ UNCHANGED <<daymsgs, overviews0, overviews, date_keys, force_refresh,
                 days, oi, ocancel, ocalls>>
  /\ UNCHANGED oevents
  /\ UNCHANGED nonRefreshVars

NextDay == IF oi < Len(days) THEN "day" ELSE "done"

\* tasks_refresh_overviews.py:89-120: the day is fresh, continue
RefreshSkip ==
  /\ opc = "day" /\ ~ocancel
  /\ skip_fresh(force_refresh, normalize_days(date_keys),
                daymsgs[CurDay].max_summarized_at, overviews[CurDay])
  /\ oi' = oi + 1
  /\ opc' = NextDay
  /\ UNCHANGED <<daymsgs, overviews0, overviews, date_keys, force_refresh,
                 days, ocancel, ocalls>>
  /\ oevents' = Append(oevents, DayEvent("info", CurDay))
  /\ UNCHANGED nonRefreshVars

\* tasks_refresh_overviews.py:122-156: synthesize_daily_overview is called
\* on the summaries of the day; a non-empty answer is stored
RefreshSynthesize ==
  /\ opc = "day" /\ ~ocancel
  /\ ~skip_fresh(force_refresh, normalize_days(date_keys),
                 daymsgs[CurDay].max_summarized_at, overviews[CurDay])
  /\ daymsgs[CurDay].sums
  /\ ocalls' = Append(ocalls, CurDay)
  /\ \E answer \in {"", "an overview"} :
       /\ overviews' = IF answer # "" THEN [overviews EXCEPT ![CurDay] = Now]
                       ELSE overviews
       /\ oevents' = IF answer # "" THEN forced_note(oevents)
                     ELSE forced_note(oevents) \o <<DayEvent("warn", CurDay)>>
  /\ oi' = oi + 1
  /\ opc' = NextDay
  /\ UNCHANGED <<daymsgs, overviews0, date_keys, force_refresh, days, ocancel>>
  /\ UNCHANGED nonRefreshVars

\* tasks_refresh_overviews.py:148-177: synthesize_daily_overview raises; the
\* except clause reports it and the loop goes on
RefreshSynthesizeRaise ==
  /\ opc = "day" /\ ~ocancel
  /\ ~skip_fresh(force_refresh, normalize_days(date_keys),
                 daymsgs[CurDay].max_summarized_at, overviews[CurDay])
  /\ daymsgs[CurDay].sums
  /\ ocalls' = Append(ocalls, CurDay)
  /\ oi' = oi + 1
  /\ opc' = NextDay
  /\ UNCHANGED <<daymsgs, overviews0, overviews, date_keys, force_refresh,
                 days, ocancel>>
  /\ oevents' = forced_note(oevents) \o <<DayEvent("error", CurDay)>>
  /\ UNCHANGED nonRefreshVars

\* tasks_refresh_overviews.py:135-170: the day has no summary text
RefreshNoSummaries ==
  /\ opc = "day" /\ ~ocancel
  /\ ~skip_fresh(force_refresh, normalize_days(date_keys),
                 daymsgs[CurDay].max_summarized_at, overviews[CurDay])
  /\ ~daymsgs[CurDay].sums
  /\ oi' = oi + 1
  /\ opc' = NextDay
  /\ UNCHANGED <<daymsgs, overviews0, overviews, date_keys, force_refresh,
                 days, ocancel, ocalls>>
  /\ oevents' = forced_note(oevents) \o <<DayEvent("info", CurDay)>>
  /\ UNCHANGED nonRefreshVars

NextRefresh ==
  \/ RefreshDays
  \/ RefreshCancelSet
  \/ RefreshBreak
  \/ RefreshSkip
  \/ RefreshSynthesize
  \/ RefreshSynthesizeRaise
  \/ RefreshNoSummaries

SpecRefresh == InitRefresh /\ [][NextRefresh]_vars

\* ======================= event stream of a job ==========================
\* api/routes_jobs.py stream_events.gen for one job, with the writers of the
\* jobs row and of job_events running in other threads and processes.  The
\* id of an event row is its position in the table (AUTOINCREMENT); every
\* level of event gives one message of the stream.
MaxEvents == 3
MaxStatusWrites == 2
MaxPolls == 3
EventJobs == {"this", "other"}
RowStatuses == ActiveStatuses \cup TerminalStatuses

\* get_events_since: SELECT ... WHERE job_id = ? AND id > ? ORDER BY id ASC
get_events_from(tab, last) ==
  SelectSeq([k \in 1..Len(tab) |-> k], LAMBDA k : tab[k] = "this" /\ k >= last)
get_events_since(tab, last) ==
  SelectSeq([k \in 1..Len(tab) |-> k], LAMBDA k : tab[k] = "this" /\ k > last)

InitStream ==
  /\ InitJobs /\ InitSyncIdle /\ InitArchIdle /\ InitRewriteIdle /\ InitLlmIdle
  /\ InitFileIdle /\ InitResumIdle /\ InitRefreshIdle
  /\ ekind \in Kinds
  /\ estatus \in {"none", "queued"}
  /\ etab = <<>>
  /\ nstatus = 0
  /\ termAt = -1
  /\ epc = "get_job"
  /\ ejob = "none"
  /\ evs = <<>>
  /\ last_id = 0
  /\ delivered = <<>>
  /\ polls = 0
  /\ termPoll = 0

\* ---- writers -------------------------------------------------------------
\* repo.add_event by any writer, for this job or for another one
WriterAddEvent ==
  /\ estatus # "none"
  /\ Len(etab) < MaxEvents
  /\ \E j \in EventJobs : etab' = Append(etab, j)
  /\ UNCHANGED <<ekind, estatus, nstatus, termAt, epc, ejob, evs, last_id,
                 delivered, polls, termPoll>>
  /\ UNCHANGED nonStreamVars

\* repo.set_job_status by any writer (runner, worker, cancel handler, reclaim)
WriterSetStatus ==
  /\ estatus # "none"
  /\ nstatus < MaxStatusWrites
  /\ nstatus' = nstatus + 1
  /\ \E s \in RowStatuses \ {"queued"} :
       /\ estatus' = s
       /\ termAt' = IF termAt = -1 /\ s \in TerminalStatuses
                      THEN Len(etab) ELSE termAt
  /\ UNCHANGED <<ekind, etab, epc, ejob, evs, last_id, delivered, polls,
                 termPoll>>
  /\ UNCHANGED nonStreamVars

\* ---- stream_events.gen ---------------------------------------------------
\* routes_jobs.py:228: job = repo.get_job(conn, job_id)
StreamGetJob ==
  /\ epc = "get_job"
  /\ ejob' = estatus
  /\ polls' = polls + 1
  /\ termPoll' = IF termPoll = 0 /\ estatus \in TerminalStatuses
                   THEN polls' ELSE termPoll
  /\ epc' = "get_events"
  /\ UNCHANGED <<ekind, estatus, etab, nstatus, termAt, evs, last_id,
                 delivered>>
  /\ UNCHANGED nonStreamVars

\* routes_jobs.py:229: evs = repo.get_events_since(conn, job_id, last_id)
StreamGetEvents ==
  /\ epc = "get_events"
  /\ evs' = get_events_since(etab, last_id)
  /\ epc' = IF ejob = "none" THEN "not_found" ELSE "yield"
  /\ UNCHANGED <<ekind, estatus, etab, nstatus, termAt, ejob, last_id,
                 delivered, polls, termPoll>>
  /\ UNCHANGED nonStreamVars

\* routes_jobs.py:233-235: the job does not exist
StreamNotFound ==
  /\ epc = "not_found"
  /\ epc' = "closed"
  /\ UNCHANGED <<ekind, estatus, etab, nstatus, termAt, ejob, evs, last_id,
                 delivered, polls, termPoll>>
  /\ UNCHANGED nonStreamVars

\* routes_jobs.py:237-271: one message per row of evs, last_id follows, then
\* the progress message
StreamYield ==
  /\ epc = "yield"
  /\ delivered' = delivered \o evs
  /\ last_id' = IF evs = <<>> THEN last_id ELSE evs[Len(evs)]
  /\ epc' = IF ekind = "sync" /\ ejob = "cancel_requested"
              THEN "finalize" ELSE "check"
  /\ UNCHANGED <<ekind, estatus, etab, nstatus, termAt, ejob, evs, polls,
                 termPoll>>
  /\ UNCHANGED nonStreamVars

\* routes_jobs.py:274-286: the worker is gone and the row still reads
\* cancel_requested: add_event "cancelled"
StreamFinalizeEvent ==
  /\ epc = "finalize"
  /\ estatus = "cancel_requested"
  /\ etab' = Append(etab, "this")
  /\ epc' = "finalize_status"
  /\ UNCHANGED <<ekind, estatus, nstatus, termAt, ejob, evs, last_id,
                 delivered, polls, termPoll>>
  /\ UNCHANGED nonStreamVars

\* routes_jobs.py:287-289: set_job_status cancelled
StreamFinalizeStatus ==
  /\ epc = "finalize_status"
  /\ estatus' = "cancelled"
  /\ termAt' = IF termAt = -1 THEN Len(etab) ELSE termAt
  /\ epc' = "check"
  /\ UNCHANGED <<ekind, etab, nstatus, ejob, evs, last_id, delivered, polls,
                 termPoll>>
  /\ UNCHANGED nonStreamVars

\* routes_jobs.py:274-293: the worker still runs, or the row changed, or the
\* probe raised
StreamNoFinalize ==
  /\ epc = "finalize"
  /\ epc' = "check"
  /\ UNCHANGED <<ekind, estatus, etab, nstatus, termAt, ejob, evs, last_id,
                 delivered, polls, termPoll>>
  /\ UNCHANGED nonStreamVars

\* routes_jobs.py:295-296: the status read by this poll is terminal: return
StreamClose ==
  /\ epc = "check" /\ ejob \in TerminalStatuses
  /\ epc' = "closed"
  /\ UNCHANGED <<ekind, estatus, etab, nstatus, termAt, ejob, evs, last_id,
                 delivered, polls, termPoll>>
  /\ UNCHANGED nonStreamVars

\* routes_jobs.py:297: time.sleep(0.5), next poll (at most MaxPolls polls are
\* followed)
StreamSleep ==
  /\ epc = "check" /\ ejob \notin TerminalStatuses
  /\ polls < MaxPolls
  /\ epc' = "get_job"
  /\ UNCHANGED <<ekind, estatus, etab, nstatus, termAt, ejob, evs, last_id,
                 delivered, polls, termPoll>>
  /\ UNCHANGED nonStreamVars

NextStream ==
  \/ WriterAddEvent
  \/ WriterSetStatus
  \/ StreamGetJob
  \/ StreamGetEvents
  \/ StreamNotFound
  \/ StreamYield
  \/ StreamFinalizeEvent
  \/ StreamFinalizeStatus
  \/ StreamNoFinalize
  \/ StreamClose
  \/ StreamSleep

SpecStream == InitStream /\ [][NextStream]_vars

\* ======================= properties =====================================

\* C1: in every reachable state of the messages table every row satisfies
\* seen_marked_at set => exported_at set, and exported_at set => archived_at set.
C1_TimestampOrder ==
  \A u \in Uids :
    rows[u].present =>
      /\ (rows[u].seen_marked => rows[u].exported)
      /\ (rows[u].exported => rows[u].archived)
\* a second run re-indexes a message an earlier run had already exported,
\* while another message is fully processed
C1_Witness ==
  /\ nruns = 2
  /\ spc = "export"
  /\ rows[CurUid].exported
  /\ \E u \in Uids : rows[u].seen_marked

\* C2: a message carries \Seen because of the sync only after its row has
\* been indexed and its exported_at committed; a fetch alone never sets it.
C2_SeenOnlyAfterExport ==
  \A u \in srvSeen : rows[u].present /\ rows[u].exported

\* C3: a job that cancel_job cancelled on reading status queued never has
\* status running afterwards and its task or worker is never started.
C3_QueuedCancelNeverRuns ==
  \A j \in cq : jobEpoch[j] = epoch => (status[j] # "running" /\ j \notin started)

\* C4: a sync job cancelled while running: once its row reads cancelled it
\* stays cancelled and no worker process of it is alive any more.
C4_RunningCancelStops ==
  [][\A j \in cr :
       (kind[j] = "sync" /\ jobEpoch[j] = epoch' /\ status[j] = "cancelled")
         => (status'[j] = "cancelled" /\ proc'[j] \notin AliveStates)]_vars

\* nothing is in flight: the runner waits on an empty queue, no request is
\* being handled, no worker process is alive
Quiescent ==
  /\ rpc = "get"
  /\ q = <<>>
  /\ cpc = "idle"
  /\ \A h \in Handlers : hpc[h] = "idle"
  /\ \A j \in JobIds : proc[j] \notin AliveStates

\* C5: no job stays in cancel_requested: when the runner, the handlers and
\* the workers have all finished, no row reads cancel_requested.
C5_CancelRequestedFinalized ==
  Quiescent => \A j \in JobIds : status[j] # "cancel_requested"

\* C6: at most one job row per kind has a status in
\* {queued, running, cancel_requested}.
C6_OneActivePerKind ==
  \A k \in Kinds : Cardinality(ActiveRows(k)) <= 1

\* a job is executing: its task function runs in the runner thread, or the
\* worker child the runner of this process started for it is alive
Executing(j) ==
  \/ rpc = "task" /\ rjob = j
  \/ proc[j] \in AliveStates /\ jobEpoch[j] = epoch

C9_FatalError ==
  [][(rpc = "except" /\ rpc' = "finally") =>
       IF PreserveOnError(rjob)
         THEN status'[rjob] = "cancelled"
         ELSE /\ status'[rjob] = "failed"
              /\ message'[rjob] \in {"exc", "sync worker failed"}]_vars

\* the job the cancel handler works on in a step
HandledJob == IF cpc = "idle" THEN cjob' ELSE cjob
\* a step of a cancel_job call made on a terminal job: the call starts while
\* the row is terminal, or it goes on after it read a terminal status from a
\* row that is still terminal
TerminalCancelStep ==
  /\ cpc' # cpc
  /\ epoch' = epoch
  /\ \/ cpc = "idle" /\ status[cjob'] \in TerminalStatuses
     \/ /\ cpc \in {"write", "kill", "final"}
        /\ cread \in TerminalStatuses
        /\ status[cjob] \in TerminalStatuses

C11_FailureAbortsMessageOnly ==
  /\ spc = "finally" => mi = Len(msgs) + 1
  /\ outcome # "failed"

\* the rows the index holds for message u are those of one archive of u
RowsOfArchive(u, run) ==
  /\ attRows[u] = archive_message(u, run).attachments
  /\ extRows[u] = archive_message(u, run).external_assets
IndexedStages == {"summarize", "export", "set_exported", "mark",
                  "set_seen_marked"}

\* C12: running sync again over the same messages creates no second row for
\* a key (account_id, mailbox, uidvalidity, uid), and leaves for each message
\* exactly the attachment and external_asset rows of its latest archive,
\* whether or not the earlier run marked the message seen.
C12_RerunIdempotent ==
  /\ \A u \in Uids : rows[u].copies = IF rows[u].present THEN 1 ELSE 0
  /\ \A u \in Uids : rows[u].present => \E run \in 1..nruns : RowsOfArchive(u, run)
  /\ spc \in IndexedStages => RowsOfArchive(CurUid, nruns)
\* a second run has indexed again a message the first run had exported
C12_Witness ==
  /\ nruns = 2
  /\ spc = "summarize"
  /\ rows[CurUid].exported
  /\ ~rows[CurUid].seen_marked
  /\ RowsOfArchive(CurUid, 2)

StageOrder == <<"archive", "index", "summarize", "export", "mark">>
StageIndex(st) == CHOOSE k \in 1..Len(StageOrder) : StageOrder[k] = st

\* C19: in one sync run the stages are entered message by message in
\* strictly ascending uid order, every uid above the watermark, and for each
\* message in the order archive, index, summarize, export, mark-seen; no
\* stage of a later message comes before a stage of an earlier one.
C19_AscendingUidStageOrder ==
  /\ \A a \in 1..Len(stageLog) : stageLog[a][1] > last_uid
  /\ \A a, b \in 1..Len(stageLog) :
       a < b =>
         \/ stageLog[a][1] < stageLog[b][1]
         \/ /\ stageLog[a][1] = stageLog[b][1]
            /\ StageIndex(stageLog[a][2]) < StageIndex(stageLog[b][2])
  /\ \A a \in 1..Len(stageLog) :
       StageIndex(stageLog[a][2]) > 1 =>
         /\ a > 1
         /\ stageLog[a - 1] =
              <<stageLog[a][1], StageOrder[StageIndex(stageLog[a][2]) - 1]>>
\* two messages went through all five stages
C19_Witness ==
  /\ Len(stageLog) = 2 * Len(StageOrder)
  /\ stageLog[1] = <<1, "archive">>
  /\ stageLog[Len(stageLog)] = <<2, "mark">>

\* C20: mark_seen is attempted at most twice per uid; seen_marked_at is
\* written only for a uid one of whose attempts succeeded; when both attempts
\* fail a warn event is recorded, seen_marked_at stays unset and the loop
\* goes on with the next message.
C20_MarkSeenRetry ==
  /\ [](markTries <= 2)
  /\ [](\A u \in SeqSet(msgs) : rows[u].seen_marked => u \in markedOk)
  /\ [][(spc = "mark" /\ markTries = 1 /\ markTries' = 2
           /\ CurUid \notin markedOk')
          => /\ CurUid \in warned'
             /\ ~rows'[CurUid].seen_marked
             /\ mi' = mi + 1
             /\ spc' = (IF mi < Len(msgs) THEN "archive" ELSE "finally")]_vars
\* both attempts failed for uid 1 and the loop is at uid 2
C20_Witness ==
  /\ spc = "archive"
  /\ mi = 2
  /\ markTries = 2
  /\ msgs[1] \in warned \ markedOk
  /\ ~rows[msgs[1]].seen_marked

\* C13: re-archiving overwrites in place: after a second archive_message call
\* with the same raw bytes on the same message directory the set of files,
\* the attachment file names, the cid map and rendered.html are those the
\* first call left.
C13_RearchiveInPlace ==
  Len(ares) >= 2 => ares[2] = ares[1]

\* C14: in one rewrite call with budget B, over every sequence of references,
\* the bytes received for external assets (aborted downloads included) never
\* exceed B, the remaining budget never goes below 0, and at most 120 assets
\* are recorded.
C14_DownloadBudget ==
  /\ received <= rbudget
  /\ remaining >= 0
  /\ Len(assets) <= max_assets

\* what the claim allows a request for
PublicNamedHost(call) ==
  /\ call.url.scheme \in {"http", "https"}
  /\ call.url.host \notin {"", "localhost", "ip_private", "ip_public"}
  /\ call.dns.st = "ok"
  /\ \A a \in call.dns.addrs : a = "public"
BlockedAsset(call) ==
  \E k \in 1..Len(assets) :
    /\ assets[k].original_url = call.url
    /\ assets[k].status = "blocked"
    /\ assets[k].reason = call.why

\* C15: stream_download issues a request only for an http/https URL whose
\* host is not localhost, not an IP literal and resolves to no private,
\* loopback, link-local, multicast or reserved address; every other URL ends
\* as a blocked:<reason> asset without a request, and a DNS time-out gives
\* blocked:dns resolve timeout.
C15_RequestOnlyPublicHost ==
  \A k \in 1..Len(rcalls) :
    /\ rcalls[k].requested => PublicNamedHost(rcalls[k])
    /\ ~rcalls[k].requested => rcalls[k].why # "" /\ BlockedAsset(rcalls[k])
    /\ (rcalls[k].dns.st = "timeout" /\ ~rcalls[k].late)
         => rcalls[k].why = "dns resolve timeout"

\* C16: after the rewrite every src/href/poster value that is not a cid:
\* reference points inside the archive (attachments/ or external/) or is the
\* original_url of a recorded ExternalAsset whose status tells why it was
\* not localized.
C16_RefsLocalOrRecorded ==
  wpc = "done" =>
    \A k \in 1..rnattr :
      \/ rout[k].kind \in {"cid", "attachments", "external"}
      \/ \E a \in 1..Len(assets) :
           /\ assets[a].original_url = rout[k]
           /\ assets[a].rel_path = <<>>
           /\ assets[a].status # "downloaded"

\* C17: for every body longer than the active threshold,
\* summarize_email_long_aware has made, when it returns, one provider call
\* per chunk and after them at least one reduce call.
C17_MapThenReduce ==
  (lpc = "returned" /\ BodyLen(lparas, lpad) > Cfg.chunk_if_body_chars_over)
    => LET n == Len(chunk_text(lparas, Cfg.chunk_chars, Cfg.max_chunks)) IN
         /\ Len(lcalls) >= n + 1
         /\ \A k \in 1..Len(lcalls) :
              lcalls[k] = IF k <= n THEN "map" ELSE "reduce"

HeaderTexts(text) ==
  SelectSeq([k \in 1..Len(text) |-> IF text[k].kind = "header"
                                      THEN text[k].text ELSE ""],
            LAMBDA t : t # "")

\* C18: whatever the provider answers, the summary returned has exactly two
\* top-level sections, the core section and the detail section, and none of
\* its bullet lines holds a raw "**".
C18_TwoSectionsNoBold ==
  lpc = "returned" /\ lcalls # <<>> =>
    /\ HeaderTexts(lsummary) = <<"core", "detail">>
    /\ \A k \in 1..Len(lsummary) :
         lsummary[k].kind = "bullet" => ~lsummary[k].bold

\* C21: a crash during a write of the archive pipeline leaves the target path
\* at its previous state (absent or the earlier complete file) or at the new
\* complete content, never partially written.
C21_AtomicWrites ==
  fpc = "crashed" => ffile \in {fprior, FileOf(fdata)}

\* C22: every chunk _chunk_text returns has at most chunk_chars characters,
\* and there are at most max_chunks chunks when max_chunks is set.
C22_ChunksWithinSize ==
  lpc # "start" =>
    /\ \A k \in 1..Len(lchunks) : lchunks[k] <= Cfg.chunk_chars
    /\ lmax_chunks # 0 => Len(lchunks) <= lmax_chunks

\* fractions a/b < c/d and a/b <= c/d, denominators positive
FracLess(x, y) == x.num * y.den < y.num * x.den
FracLeq(x, y) == x.num * y.den <= y.num * x.den
Zero == [num |-> 0, den |-> 1]
MapCallsMade == Len(SelectSeq(lcalls, LAMBDA c : c = "map"))

\* C23: in the chunked path with N chunks on_progress gets i/(N+1) after the
\* provider call of chunk i returned, for i = 1..N in that order, and 1.0
\* after the reduce step, also when the reduce call raised: N+1 calls when
\* the function returns; the values are strictly increasing and within [0,1].
C23_ProgressPerChunkThenOne ==
  /\ \A k \in 1..Len(lprogress) :
       /\ FracLeq(Zero, lprogress[k]) /\ FracLeq(lprogress[k], One)
       /\ k > 1 => FracLess(lprogress[k - 1], lprogress[k])
       /\ k <= Len(lchunks) =>
            lprogress[k] = [num |-> k, den |-> Len(lchunks) + 1]
  /\ lpc \in {"map", "synth", "raised"} /\ lchunks # <<>> =>
       /\ Len(lprogress) = li - 1
       /\ Len(lprogress) <= MapCallsMade
       /\ lpc = "raised" \/ Len(lprogress) = MapCallsMade
  /\ lpc = "finish" => Len(lprogress) = Len(lchunks)
  /\ lpc = "returned" /\ lchunks # <<>> =>
       /\ Len(lprogress) = Len(lchunks) + 1
       /\ lprogress[Len(lprogress)] = One

\* a chunked call returned after its reduce call raised
C23_Witness ==
  /\ lpc = "returned" /\ Len(lchunks) = 2
  /\ final_summary_text = <<>>
  /\ lprogress = <<[num |-> 1, den |-> 3], [num |-> 2, den |-> 3], One>>

\* the target set the inputs ask for, and what the run did so far
AskedTargets ==
  IF message_ids # {} THEN {i \in MsgIds : mrows0[i].present /\ i \in message_ids}
  ELSE IF only_failed
    THEN {i \in MsgIds : mrows0[i].present /\ mrows0[i].inday
                         /\ mrows0[i].summary \in {"", "(LLM unavailable)"}}
  ELSE {i \in MsgIds : mrows0[i].present /\ mrows0[i].inday}
Rewritten(i) == mrows[i].summarized_at # 0 /\ mrows[i].tags = "new"
UpdatedEvents(i) ==
  Len(SelectSeq(mevents, LAMBDA e : e = Event("message_updated", i)))
\* run returned
RunEnded == zpc = "done"

\* C24: a resummarize-day run updates exactly its target set (message_ids: those
\* rows; else only_failed: the rows of the day with a bad summary; else all
\* rows of the day): every target is rewritten and gets one message_updated
\* event after its commit, rows outside the set are unchanged.
C24_ExactlyTargetsUpdated ==
  RunEnded =>
    /\ \A i \in AskedTargets : Rewritten(i) /\ UpdatedEvents(i) = 1
    /\ \A i \in MsgIds \ AskedTargets :
         mrows[i] = mrows0[i] /\ UpdatedEvents(i) = 0

\* C24 (amended): holds for a run that returns without having seen its cancel
\* event; a run that was cancelled, or whose provider call raised, has
\* rewritten the targets before the current one only.  In every state the
\* targets are the asked set in date order, rows outside it are unchanged,
\* a target has at most one message_updated event and only after its commit.
C24_TargetsUpdatedUnlessCancelled ==
  /\ zpc # "list" => targets = AscList(AskedTargets)
  /\ \A i \in MsgIds \ AskedTargets :
       mrows[i] = mrows0[i] /\ UpdatedEvents(i) = 0
  /\ \A i \in AskedTargets :
       /\ UpdatedEvents(i) <= 1
       /\ UpdatedEvents(i) = 1 => Rewritten(i)
       /\ ~Rewritten(i) => mrows[i] = mrows0[i]
  /\ zpc # "list" =>
       \A k \in 1..Len(targets) :
         /\ k < ti => Rewritten(targets[k]) /\ UpdatedEvents(targets[k]) = 1
         /\ k > ti => ~Rewritten(targets[k])
  /\ zpc = "done" /\ ti > Len(targets) =>
       \A i \in AskedTargets : Rewritten(i) /\ UpdatedEvents(i) = 1

\* a run with two targets returned after rewriting both
C24_Witness ==
  /\ zpc = "done" /\ ti > Len(targets) /\ Len(targets) = 2
  /\ \A i \in AskedTargets : Rewritten(i) /\ UpdatedEvents(i) = 1

\* the overview of day d is at least as new as the newest summary of the day
FreshDay(d) ==
  /\ daymsgs[d].max_summarized_at # 0 /\ overviews0[d] # 0
  /\ overviews0[d] >= daymsgs[d].max_summarized_at
CalledFor(d) == \E k \in 1..Len(ocalls) : ocalls[k] = d

\* C25: without force_refresh a day whose overview updated_at is >= the
\* maximum summarized_at of its messages is skipped, no provider call and the
\* overview row unchanged, whether the days come from the index or from
\* date_keys.
C25_FreshDaySkipped ==
  opc # "start" /\ ~force_refresh =>
    \A d \in DayKeys : FreshDay(d) => ~CalledFor(d) /\ overviews[d] = overviews0[d]

\* the events of the job appended before its row first read a terminal status
EventsBeforeTerminal ==
  {k \in 1..Len(etab) : etab[k] = "this" /\ termAt # -1 /\ k <= termAt}
Delivered(k) == \E n \in 1..Len(delivered) : delivered[n] = k
ClosedOnTerminal == epc = "closed" /\ ejob \in TerminalStatuses

\* C26: the event stream of a job delivers each event of the job at most once
\* and in strictly increasing id order, with last_id the last one delivered;
\* when it closes it has delivered every event appended before the row
\* reached a terminal status; it closes after the first poll that reads
\* succeeded, failed or cancelled, for every interleaving with the writers.
C26_StreamOrderedCompleteCloses ==
  /\ \A n \in 1..Len(delivered) :
       /\ delivered[n] \in 1..Len(etab) /\ etab[delivered[n]] = "this"
       /\ n > 1 => delivered[n - 1] < delivered[n]
  /\ last_id = (IF delivered = <<>> THEN 0 ELSE delivered[Len(delivered)])
  /\ ClosedOnTerminal => \A k \in EventsBeforeTerminal : Delivered(k)
  /\ termPoll # 0 => polls = termPoll
  /\ termPoll # 0 /\ epc = "closed" => ejob \in TerminalStatuses
  /\ epc = "closed" => ejob \in TerminalStatuses \cup {"none"}

\* the stream closed on a terminal status after more than one poll, having
\* delivered two events of the job that were appended before that status
C26_Witness ==
  /\ ClosedOnTerminal /\ polls >= 2
  /\ Cardinality(EventsBeforeTerminal) >= 2
  /\ Len(delivered) >= 2

\* C27: terminal statuses are absorbing: once a job row reads succeeded,
\* failed or cancelled, no step of the runner, a worker, a handler or the
\* start-up recovery changes its status.
C27_TerminalAbsorbing ==
  [][\A j \in JobIds :
       status[j] \in TerminalStatuses => status'[j] = status[j]]_vars

\* C28: after the row of a job was finalized as cancelled no work is done
\* for the job: its task does not run and no worker process of it is
\* started or alive, in the state where the row reads cancelled and after
\* every later step.
C28_NoWorkAfterCancelled ==
  [][\A j \in JobIds :
       status[j] = "cancelled" =>
         /\ ~(rpc' = "task" /\ rjob' = j)
         /\ proc'[j] \notin AliveStates]_vars

\* C29: the UID watermark never skips an unfinished message: between sync
\* runs every archived message with uid <= get_max_uid has seen_marked_at
\* set, so the next run picks up a message whose mark-seen failed.
C29_WatermarkSkipsNothing ==
  spc = "idle" =>
    \A u \in Uids :
      rows[u].present /\ rows[u].archived /\ u <= get_max_uid(rows)
        => rows[u].seen_marked

\* the values of progress_current a step of the sync task goes through: the
\* value before the step, then each value the step wrote
ProgressPath == <<progress_current>> \o pcalls'

\* C30: during a sync job the progress of the job row never goes backwards
\* and never leaves 0..total: over the update_progress calls of the task
\* (the initial 0, the stage changes at i - 0.99, the sub-progress of the
\* summarize stage at i - 1 + fraction) progress_current is non-decreasing
\* and 0 <= progress_current <= progress_total, with progress_total =
\* max(number of fetched messages, 1)
C30_ProgressMonotoneBounded ==
  [][pcalls' # <<>> /\ nresum' = nresum
       => /\ \A k \in 1..Len(pcalls') :
               /\ FracLeq(ProgressPath[k], ProgressPath[k + 1])
               /\ FracLeq(Zero, pcalls'[k])
               /\ FracLeq(pcalls'[k], [num |-> progress_total', den |-> 1])
          /\ progress_total' = progress_total_of(Len(msgs'))]_vars
====
